---- MODULE Spec2Model ----
(***************************************************************************)
(* Collection layer of the vector-search engine: shard holder, shard       *)
(* transfer protocol (start / finish / abort and the transfer task) and    *)
(* the replica set's write fan-out.                                        *)
(*                                                                         *)
(* coll[p] is the Collection object of peer p.  The shard holder, the      *)
(* transfer-task pool and the helpers of shard_transfer.rs are defined     *)
(* outside the files translated here; they follow the design document.     *)
(***************************************************************************)
EXTENDS Integers, Sequences, FiniteSets, TLC

VARIABLES
    coll,    \* peer -> Collection: shard holder (shards, temporary shards, transfers) and task pool
    last,    \* the last step when it was a Collection call: operation, arguments, result
    proto,   \* the consensus-ordered run of one transfer over the cluster
    upd,     \* the ReplicaSet::update call in flight on ThisPeer
    cbLog    \* invocations of the replica-failure callback made by that call

vars == <<coll, last, proto, upd, cbLog>>

(***************************************************************************)
(* Bounds                                                                  *)
(***************************************************************************)
NumPeers == 3
MaxTransfers == 2        \* transfer records registered on a peer at the same time
NumReadPeers == 4        \* peers of the cluster in which reads are followed

Peers == 1..NumPeers
ThisPeer == CHOOSE p \in Peers : \A q \in Peers : p <= q
NoPeer == ThisPeer - 1   \* the peer field of a shard that addresses no peer
ShardIds == {0}          \* shard ids present in every shard holder
MissingShard == Cardinality(ShardIds)   \* the first shard id no shard holder contains
ReadPeers == 1..NumReadPeers
READ_REMOTE_REPLICAS == 2

(***************************************************************************)
(* Data model                                                              *)
(***************************************************************************)
EmptyMap == [x \in {} |-> FALSE]

\* enum Shard { Local, Remote, Proxy, ForwardProxy, ReplicaSet }
PlainShard(kind, peer) ==
    [kind |-> kind, peer |-> peer, local |-> "None", remotes |-> <<>>,
     replica_state |-> EmptyMap, persisted |-> EmptyMap]

LocalShard == PlainShard("Local", NoPeer)
RemoteShard(peer) == PlainShard("Remote", peer)
ForwardProxyShard(to) == PlainShard("ForwardProxy", to)

ShardTransfer(shard_id, from, to, sync) ==
    [shard_id |-> shard_id, from |-> from, to |-> to, sync |-> sync]

TransferKey(t) == [shard_id |-> t.shard_id, from |-> t.from, to |-> t.to]

RemoveKey(f, k) == [x \in DOMAIN f \ {k} |-> f[x]]
PutKey(f, k, v) == [x \in DOMAIN f \cup {k} |-> IF x = k THEN v ELSE f[x]]

SeqToSet(s) == {s[i] : i \in 1..Len(s)}

Bool(b) == IF b THEN "true" ELSE "false"

(***************************************************************************)
(* ReplicaSet (shard/replica_set.rs)                                       *)
(***************************************************************************)
\* ReplicaSet::build: the remotes vector starts empty, every given peer is active;
\* replica_state is the map in memory, persisted the content of the replica-state file
build(this_peer_id, local, remotes) ==
    [kind |-> "ReplicaSet", peer |-> NoPeer,
     local |-> IF local THEN "Local" ELSE "None",
     remotes |-> <<>>,
     replica_state |-> [p \in (IF local THEN {this_peer_id} ELSE {}) \cup remotes |-> TRUE],
     persisted |-> [p \in (IF local THEN {this_peer_id} ELSE {}) \cup remotes |-> TRUE]]

\* peer_ids(): remotes, then this peer when a local replica is present
peer_ids(rs, this_peer_id) ==
    rs.remotes \o (IF rs.local # "None" THEN <<this_peer_id>> ELSE <<>>)

\* SaveOnDisk::write_with_res when the closure returned Ok: the changed clone is
\* written to the file and becomes the map in memory
write_with_res(rs, changed) ==
    [rs EXCEPT !.replica_state = changed, !.persisted = changed]

\* SaveOnDisk::load_or_init after a restart: the map in memory is the file's content
reopen(rs) ==
    [rs EXCEPT !.replica_state = rs.persisted]

\* every registered peer counts as active
peer_is_registered(rs, peer_id) ==
    peer_id \in DOMAIN rs.replica_state

\* Unknown peers are not active.
peer_is_active(rs, peer_id) ==
    peer_id \in DOMAIN rs.replica_state /\ rs.replica_state[peer_id] = TRUE

\* set_active: write_with_res on a clone; NotFound leaves the map as it was
set_active(rs, peer_id, active) ==
    IF peer_id \in DOMAIN rs.replica_state
    THEN [ok |-> TRUE, rs |-> write_with_res(rs, [rs.replica_state EXCEPT ![peer_id] = active])]
    ELSE [ok |-> FALSE, rs |-> rs]

\* add_inactive_replica_state: fails when the peer is already registered
add_inactive_replica_state(rs, peer_id) ==
    IF peer_id \in DOMAIN rs.replica_state
    THEN [ok |-> FALSE, rs |-> rs]
    ELSE [ok |-> TRUE, rs |-> write_with_res(rs, PutKey(rs.replica_state, peer_id, FALSE))]

\* remove_replica: drops the local replica or the first remote of that peer; the
\* replica-state map is left as it is
remove_replica(rs, this_peer_id, peer_id) ==
    IF peer_id = this_peer_id
    THEN IF rs.local # "None"
         THEN [ok |-> TRUE, rs |-> [rs EXCEPT !.local = "None"]]
         ELSE [ok |-> FALSE, rs |-> rs]
    ELSE IF \E i \in 1..Len(rs.remotes) : rs.remotes[i] = peer_id
    THEN LET remote_index ==
                 CHOOSE i \in 1..Len(rs.remotes) :
                     /\ rs.remotes[i] = peer_id
                     /\ \A j \in 1..(i - 1) : rs.remotes[j] # peer_id
         IN [ok |-> TRUE,
             rs |-> [rs EXCEPT !.remotes =
                        SubSeq(@, 1, remote_index - 1) \o SubSeq(@, remote_index + 1, Len(@))]]
    ELSE [ok |-> FALSE, rs |-> rs]

\* what the disk does during one apply_state: nothing fails, deleting the local
\* shard fails, or saving the map fails
DiskOutcomes ==
    {[drop_ok |-> TRUE, save_ok |-> TRUE], [drop_ok |-> FALSE, save_ok |-> TRUE],
     [drop_ok |-> TRUE, save_ok |-> FALSE]}

\* apply_state, the loop over the removed peers in the order the map yields them:
\* this peer's local replica is taken, dropped and deleted from disk (the deletion may
\* fail: io.drop_ok); a removed peer that has a remote shard hits todo!(); otherwise
\* the key is removed from the map in memory
RECURSIVE apply_removed(_, _, _, _, _)
apply_removed(rs, this_peer_id, removed_peers, io, dropped) ==
    IF removed_peers = <<>>
    THEN [ret |-> "ok", rs |-> rs, dropped |-> dropped]
    ELSE LET peer_id == Head(removed_peers)
             removed == [rs EXCEPT !.replica_state = RemoveKey(@, peer_id)]
         IN IF peer_id = this_peer_id /\ rs.local # "None"
            THEN IF io.drop_ok
                 THEN apply_removed([removed EXCEPT !.local = "None"], this_peer_id,
                                    Tail(removed_peers), io, TRUE)
                 ELSE [ret |-> "err", rs |-> [rs EXCEPT !.local = "None"], dropped |-> dropped]
            ELSE IF peer_id # this_peer_id /\ peer_id \in SeqToSet(rs.remotes)
            THEN [ret |-> "panic", rs |-> rs, dropped |-> dropped]
            ELSE apply_removed(removed, this_peer_id, Tail(removed_peers), io, dropped)

\* apply_state, the loop over the target map in the order it yields its entries: a
\* known peer gets the target's value, a peer not in the map hits todo!()
RECURSIVE apply_replicas(_, _, _)
apply_replicas(rs, replicas, order) ==
    IF order = <<>>
    THEN [ret |-> "ok", rs |-> rs]
    ELSE IF Head(order) \in DOMAIN rs.replica_state
    THEN apply_replicas([rs EXCEPT !.replica_state[Head(order)] = replicas[Head(order)]],
                        replicas, Tail(order))
    ELSE [ret |-> "panic", rs |-> rs]

\* apply_state: the map in memory is changed in place and saved at the end (the save
\* may fail: io.save_ok).  removed_order and order are the iteration orders of the maps.
apply_state(rs, this_peer_id, replicas, removed_order, order, io) ==
    LET first == apply_removed(rs, this_peer_id, removed_order, io, FALSE)
        second == apply_replicas(first.rs, replicas, order)
    IN IF first.ret # "ok"
       THEN first
       ELSE IF second.ret # "ok"
       THEN [ret |-> second.ret, rs |-> second.rs, dropped |-> first.dropped]
       ELSE IF io.save_ok
       THEN [ret |-> "ok", rs |-> [second.rs EXCEPT !.persisted = second.rs.replica_state],
             dropped |-> first.dropped]
       ELSE [ret |-> "err", rs |-> second.rs, dropped |-> first.dropped]

\* update: target all remote peers that are active, in the order of the remotes vector
active_remote_shards(rs) ==
    SelectSeq(rs.remotes, LAMBDA peer_id : peer_is_active(rs, peer_id))

\* update: local is defined AND the peer itself is active
local_is_active(rs, this_peer_id) ==
    rs.local # "None" /\ peer_is_active(rs, this_peer_id)

\* the write goes on without an active replica
no_active_replica_never(remotes, local) ==
    FALSE

\* update: the early return with the "has no active replica" service error
no_active_replica(remotes, local) ==
    remotes = <<>> /\ ~local

\* One poll of a write future.  A future polled for the first time issues the write
\* to its replica; the poll leaves it pending or completes it with the outcome given.
PollFuture(status, outcome) ==
    IF status \in {"new", "pending"} THEN outcome ELSE status

\* try_join_all(remote_futures), one poll: the futures are polled in order; the first
\* one that completes with an error ends the poll with that error, the futures after
\* it are not polled.  err is the peer of that error, NoPeer if there is none.
RECURSIVE try_join_all(_, _, _, _)
try_join_all(remote_futures, st, outcome, i) ==
    IF i > Len(remote_futures)
    THEN [st |-> st, err |-> NoPeer]
    ELSE LET peer_id == remote_futures[i]
             polled == PollFuture(st[peer_id], outcome[peer_id])
             st1 == [st EXCEPT ![peer_id] = polled]
         IN IF polled = "err" /\ st[peer_id] # "err"
            THEN [st |-> st1, err |-> peer_id]
            ELSE try_join_all(remote_futures, st1, outcome, i + 1)

\* try_join(remote_updates, local_update), one poll: remote_updates is polled first
\* and its error returned at once; only then local_update is polled, its error mapped
\* to this peer's id.  Without an active local replica the remote futures are joined alone.
try_join(u, this_peer_id, outcome) ==
    LET remote_updates == try_join_all(u.remotes, u.st, outcome, 1)
    IN IF remote_updates.err # NoPeer \/ ~u.local
       THEN remote_updates
       ELSE LET local_update == PollFuture(remote_updates.st[this_peer_id], outcome[this_peer_id])
            IN [st |-> [remote_updates.st EXCEPT ![this_peer_id] = local_update],
                err |-> IF local_update = "err" THEN this_peer_id ELSE NoPeer]

\* the replicas a write is aimed at
Targets(u) == SeqToSet(u.remotes) \cup (IF u.local THEN {u.this_peer_id} ELSE {})

\* the replicas the write has been issued to
Sent(u) == {q \in Targets(u) : u.st[q] # "new"}

\* update, the match on all_res: only the remote results are kept, the first of them
\* is the reply; an error is returned after the failing peer was reported
update_result(all_res, remotes) ==
    IF all_res.err # NoPeer THEN "ErrReplica"
    ELSE IF remotes = <<>> THEN "ErrNoneReplied"
    ELSE "Ok"

\* only a remote peer's failure is reported
notify_remote_failure(all_res, shard_id) ==
    IF all_res.err \notin {NoPeer, ThisPeer} THEN <<<<all_res.err, shard_id>>>> ELSE <<>>

\* update, the Err arm: report failing `peer_id`
notify_peer_failure(all_res, shard_id) ==
    IF all_res.err # NoPeer THEN <<<<all_res.err, shard_id>>>> ELSE <<>>

IdleUpdate ==
    [phase |-> "idle", shard_id |-> MissingShard, this_peer_id |-> NoPeer, remotes |-> <<>>,
     local |-> FALSE, st |-> [q \in Peers |-> "none"], ret |-> "none"]

\* update up to the point where the joined future is awaited
update_begin(rs, shard_id, this_peer_id) ==
    LET remotes == active_remote_shards(rs)
        local == local_is_active(rs, this_peer_id)
        u == [phase |-> "running", shard_id |-> shard_id, this_peer_id |-> this_peer_id,
              remotes |-> remotes, local |-> local,
              st |-> [q \in Peers |->
                        IF q \in SeqToSet(remotes) \/ (local /\ q = this_peer_id)
                        THEN "new" ELSE "none"],
              ret |-> "none"]
    IN IF no_active_replica(remotes, local)
       THEN [u EXCEPT !.phase = "done", !.ret = "ErrNoActive"]
       ELSE u

\* one poll of the joined future and, when it completes, the rest of update
update_poll(u, outcome) ==
    LET all_res == try_join(u, u.this_peer_id, outcome)
        ready == all_res.err # NoPeer \/ \A q \in Targets(u) : all_res.st[q] = "ok"
    IN [u |-> [u EXCEPT !.st = all_res.st,
                        !.phase = IF ready THEN "done" ELSE "running",
                        !.ret = IF ready THEN update_result(all_res, u.remotes) ELSE "none"],
        notified |-> IF ready THEN notify_peer_failure(all_res, u.shard_id) ELSE <<>>]

(***************************************************************************)
(* ReplicaSet::execute_read_operation                                      *)
(***************************************************************************)
Min(a, b) == IF a <= b THEN a ELSE b

IdleRead ==
    [phase |-> "idle", shard_id |-> MissingShard, this_peer_id |-> NoPeer,
     active |-> <<>>, fan_out_selection |-> 0,
     st |-> [q \in ReadPeers |-> "none"], captured_error |-> NoPeer,
     contacted |-> <<>>, failed |-> <<>>,
     ret |-> [kind |-> "none", peer |-> NoPeer]]

\* the futures of a tier are created
ReadTier(rd, members) ==
    [rd EXCEPT !.st = [q \in ReadPeers |-> IF q \in SeqToSet(members) THEN "new" ELSE @[q]]]

\* the members of the tier the read is in
tier(rd) ==
    CASE rd.phase = "local" -> <<rd.this_peer_id>>
      [] rd.phase = "first" -> SubSeq(rd.active, 1, rd.fan_out_selection)
      [] rd.phase = "remaining" -> SubSeq(rd.active, rd.fan_out_selection + 1, Len(rd.active))
      [] OTHER -> <<>>

\* 2 - try a subset of active remote shards in parallel for fast response
read_first_tier(rd, rs) ==
    LET active == active_remote_shards(rs)
        fan_out_selection == Min(Len(active), READ_REMOTE_REPLICAS)
    IN IF active = <<>>
       THEN [rd EXCEPT !.phase = "done", !.ret = [kind |-> "ErrNoActive", peer |-> NoPeer]]
       ELSE ReadTier([rd EXCEPT !.phase = "first", !.active = active,
                                !.fan_out_selection = fan_out_selection],
                     SubSeq(active, 1, fan_out_selection))

\* all futures of the tier have failed: 3 - fallback to remaining remote shards as last
\* chance, and after them the captured error
read_tier_failed(rd, rs) ==
    CASE rd.phase = "local" -> read_first_tier(rd, rs)
      [] rd.phase = "first" /\ rd.fan_out_selection < Len(rd.active) ->
            ReadTier([rd EXCEPT !.phase = "remaining"],
                     SubSeq(rd.active, rd.fan_out_selection + 1, Len(rd.active)))
      [] OTHER -> [rd EXCEPT !.phase = "done",
                             !.ret = [kind |-> "Err", peer |-> rd.captured_error]]

\* the local replica is read whenever it is present, active or not
read_begin_any_local(rs, shard_id, this_peer_id) ==
    LET rd == [IdleRead EXCEPT !.shard_id = shard_id, !.this_peer_id = this_peer_id]
    IN IF rs.local # "None"
       THEN ReadTier([rd EXCEPT !.phase = "local"], <<this_peer_id>>)
       ELSE read_first_tier(rd, rs)

\* 1 - prefer the local shard if it is active
read_begin(rs, shard_id, this_peer_id) ==
    LET rd == [IdleRead EXCEPT !.shard_id = shard_id, !.this_peer_id = this_peer_id]
    IN IF rs.local # "None" /\ peer_is_active(rs, this_peer_id)
       THEN ReadTier([rd EXCEPT !.phase = "local"], <<this_peer_id>>)
       ELSE read_first_tier(rd, rs)

\* only the first failure of the first remote tier is kept
captured_error_first(rd, q) ==
    IF rd.phase = "first" /\ rd.captured_error = NoPeer THEN q ELSE rd.captured_error

\* err @ Err(_) => captured_error = Some(err), in the loop over the first remote tier only
captured_error(rd, q) ==
    IF rd.phase = "first" THEN q ELSE rd.captured_error

\* a future of the current tier is polled: the first poll contacts the replica; the
\* first success is returned; a failure of the first remote tier is captured, each one
\* over the one before; a failure of the local tier or of the remaining tier is not
read_poll(rd, rs, q, outcome) ==
    LET polled == [rd EXCEPT !.st[q] = outcome,
                             !.contacted = IF rd.st[q] = "new" THEN Append(@, q) ELSE @]
        failed == [polled EXCEPT !.failed = Append(@, q),
                                 !.captured_error = captured_error(rd, q)]
    IN CASE outcome = "ok" ->
              [polled EXCEPT !.phase = "done", !.ret = [kind |-> "Ok", peer |-> q]]
         [] outcome = "err" ->
              IF \A o \in SeqToSet(tier(rd)) : failed.st[o] = "err"
              THEN read_tier_failed(failed, rs)
              ELSE failed
         [] OTHER -> polled

(***************************************************************************)
(* Shard holder and transfer-task pool (modelled from the design document) *)
(***************************************************************************)
get_shard(c, shard_id) ==
    IF shard_id \in DOMAIN c.shards THEN c.shards[shard_id] ELSE PlainShard("None", NoPeer)

\* inserts t; r = FALSE if it was already present; error if a conflicting record exists
register_start_shard_transfer(c, t) ==
    IF \E u \in c.transfers : u # t /\ TransferKey(u) = TransferKey(t)
    THEN [ok |-> FALSE, c |-> c, r |-> FALSE]
    ELSE [ok |-> TRUE, c |-> [c EXCEPT !.transfers = @ \cup {t}],
          r |-> t \notin c.transfers]

\* removes t; r = TRUE iff it was present
register_finish_transfer(c, t) ==
    [c |-> [c EXCEPT !.transfers = @ \ {t}], r |-> t \in c.transfers]

\* TaskResult of a task taken out of the pool
TaskResultOf(task) ==
    CASE task.st = "finished" -> "Finished"
      [] task.st = "failed" -> "Failed"
      [] OTHER -> "Running"

\* stop_if_exists: takes the task for the key out of the pool and stops it
stop_if_exists(c, t) ==
    IF TransferKey(t) \in DOMAIN c.tasks
    THEN [c |-> [c EXCEPT !.tasks = RemoveKey(@, TransferKey(t))],
          r |-> TaskResultOf(c.tasks[TransferKey(t)])]
    ELSE [c |-> c, r |-> "NotFound"]

add_task(c, t, sync) ==
    [c EXCEPT !.tasks = PutKey(@, TransferKey(t), [st |-> "spawned", sync |-> sync, t |-> t])]

(***************************************************************************)
(* Helpers of shard_transfer.rs (modelled from the design document); each  *)
(* returns r = TRUE iff it changed the shard holder.                       *)
(***************************************************************************)
promote_proxy_to_remote_shard(c, shard_id, to) ==
    IF get_shard(c, shard_id).kind = "ForwardProxy"
    THEN [c |-> [c EXCEPT !.shards[shard_id] = RemoteShard(to)], r |-> TRUE]
    ELSE [c |-> c, r |-> FALSE]

promote_temporary_shard_to_local(c, shard_id) ==
    IF shard_id \in c.temp /\ shard_id \in DOMAIN c.shards
    THEN [c |-> [c EXCEPT !.temp = @ \ {shard_id}, !.shards[shard_id] = LocalShard],
          r |-> TRUE]
    ELSE [c |-> c, r |-> FALSE]

change_remote_shard_route(c, shard_id, to) ==
    IF get_shard(c, shard_id).kind = "Remote" /\ get_shard(c, shard_id).peer # to
    THEN [c |-> [c EXCEPT !.shards[shard_id] = RemoteShard(to)], r |-> TRUE]
    ELSE [c |-> c, r |-> FALSE]

revert_proxy_shard_to_local(c, shard_id) ==
    IF get_shard(c, shard_id).kind = "ForwardProxy"
    THEN [c |-> [c EXCEPT !.shards[shard_id] = LocalShard], r |-> TRUE]
    ELSE [c |-> c, r |-> FALSE]

drop_temporary_shard(c, shard_id) ==
    IF shard_id \in c.temp
    THEN [c |-> [c EXCEPT !.temp = @ \ {shard_id}], r |-> TRUE]
    ELSE [c |-> c, r |-> FALSE]

\* activates peer_id in the replica-state map of a ReplicaSet slot
activate_peer_for_replica(c, shard_id, peer_id) ==
    IF get_shard(c, shard_id).kind = "ReplicaSet"
    THEN LET res == set_active(c.shards[shard_id], peer_id, TRUE)
         IN [ok |-> res.ok,
             c |-> [c EXCEPT !.shards[shard_id] = res.rs],
             r |-> res.ok /\ ~peer_is_active(c.shards[shard_id], peer_id)]
    ELSE [ok |-> TRUE, c |-> c, r |-> FALSE]

(***************************************************************************)
(* Collection (collection.rs)                                              *)
(***************************************************************************)
CallResult(c, ret, reg, task_result, spawned, asserts) ==
    [c |-> c, ret |-> ret, reg |-> reg, task_result |-> task_result,
     spawned |-> spawned, asserts |-> asserts]

\* send_shard: stop the task registered under the key, spawn and register a new one
send_shard(c, t, sync) ==
    LET stopped == stop_if_exists(c, t)
    IN [c |-> add_task(stopped.c, t, sync), task_result |-> stopped.r]

\* a ReplicaSet drives every sync transfer, with or without a local replica
do_transfer_without_local(shard, sync) ==
    CASE shard.kind = "Local" -> TRUE
      [] shard.kind = "ReplicaSet" -> sync
      [] OTHER -> FALSE

\* start_shard_transfer, the match on the shard variant: does this peer drive the transfer?
do_transfer(shard, sync) ==
    CASE shard.kind = "Local" -> TRUE
      [] shard.kind = "Remote" -> FALSE
      [] shard.kind = "Proxy" -> FALSE
      [] shard.kind = "ForwardProxy" -> FALSE
      [] shard.kind = "ReplicaSet" -> sync /\ shard.local # "None"
      [] OTHER -> FALSE

\* the debug assertions of start_shard_transfer that do not hold
start_asserts(shard, was_not_transferred) ==
    (IF shard.kind = "Local" /\ ~was_not_transferred THEN {"local_was_not_transferred"} ELSE {})
    \cup (IF shard.kind \in {"Proxy", "ForwardProxy"} /\ was_not_transferred
          THEN {"proxy_was_transferred"} ELSE {})

start_shard_transfer(c, t, sync) ==
    LET reg == register_start_shard_transfer(c, t)
        shard == get_shard(reg.c, t.shard_id)
    IN IF ~reg.ok
       THEN CallResult(c, "err", FALSE, "None", FALSE, {})
       ELSE IF shard.kind = "None"
       THEN CallResult(reg.c, "err", reg.r, "None", FALSE, {})
       ELSE IF do_transfer(shard, sync)
       THEN LET sent == send_shard(reg.c, t, sync)
            IN CallResult(sent.c, "true", reg.r, sent.task_result, TRUE,
                          start_asserts(shard, reg.r)
                          \cup (IF sent.task_result # "NotFound"
                                THEN {"send_shard_not_found"} ELSE {}))
       ELSE CallResult(reg.c, "false", reg.r, "None", FALSE, start_asserts(shard, reg.r))

\* finish_shard_transfer, non-sync branch: the value returned
something_changed(finish_was_registered, proxy_promoted, shard_promoted, remote_shard_rerouted) ==
    finish_was_registered /\ (proxy_promoted \/ shard_promoted \/ remote_shard_rerouted)

\* the non-sync branch without the third-party step
finish_not_sync_without_reroute(c, t) ==
    LET pp == promote_proxy_to_remote_shard(c, t.shard_id, t.to)
        pt == promote_temporary_shard_to_local(pp.c, t.shard_id)
    IN [c |-> pt.c, proxy_promoted |-> pp.r, shard_promoted |-> pt.r,
        remote_shard_rerouted |-> FALSE]

\* finish_shard_transfer, non-sync branch: the three role steps in order
finish_not_sync(c, t) ==
    LET pp == promote_proxy_to_remote_shard(c, t.shard_id, t.to)
        pt == promote_temporary_shard_to_local(pp.c, t.shard_id)
        rr == change_remote_shard_route(pt.c, t.shard_id, t.to)
    IN [c |-> rr.c, proxy_promoted |-> pp.r, shard_promoted |-> pt.r,
        remote_shard_rerouted |-> rr.r]

finish_shard_transfer(c, t) ==
    LET reg == register_finish_transfer(c, t)
        stopped == stop_if_exists(reg.c, t)
        transfer_finished == stopped.r = "Finished"
    IN IF t.sync
       THEN LET act == activate_peer_for_replica(stopped.c, t.shard_id, t.to)
            IN IF act.ok
               THEN CallResult(act.c, Bool(act.r), reg.r, stopped.r, FALSE, {})
               ELSE CallResult(stopped.c, "err", reg.r, stopped.r, FALSE, {})
       ELSE LET fin == finish_not_sync(stopped.c, t)
            IN CallResult(fin.c,
                          Bool(something_changed(reg.r, fin.proxy_promoted,
                                                 fin.shard_promoted,
                                                 fin.remote_shard_rerouted)),
                          reg.r, stopped.r, FALSE,
                          IF transfer_finished # fin.proxy_promoted
                          THEN {"task_and_proxy_same_node"} ELSE {})

\* abort_shard_transfer: the value returned
changed_something(finish_was_registered, transfer_finished, proxy_unwrapped, temp_shard_removed) ==
    finish_was_registered /\ (transfer_finished \/ proxy_unwrapped \/ temp_shard_removed)

\* abort_shard_transfer: unwrap the proxy, then remove the temporary shard
abort_steps(c, t) ==
    LET pu == revert_proxy_shard_to_local(c, t.shard_id)
        tr == drop_temporary_shard(pu.c, t.shard_id)
    IN [c |-> tr.c, proxy_unwrapped |-> pu.r, temp_shard_removed |-> tr.r]

abort_shard_transfer(c, t) ==
    LET reg == register_finish_transfer(c, t)
        stopped == stop_if_exists(reg.c, t)
        transfer_finished == stopped.r = "Finished"
        ab == abort_steps(stopped.c, t)
    IN CallResult(ab.c,
                  Bool(changed_something(reg.r, transfer_finished, ab.proxy_unwrapped,
                                         ab.temp_shard_removed)),
                  reg.r, stopped.r, FALSE, {})

\* initiate_temporary_shard: the existing temporary shard is removed and deleted,
\* a new one is built and registered
initiate_temporary_shard(c, shard_id) ==
    [c EXCEPT !.temp = (@ \ {shard_id}) \cup {shard_id}]

\* set_shard_replica_state: only valid if the shard is a ReplicaSet
set_shard_replica_state(c, shard_id, peer_id, active) ==
    IF get_shard(c, shard_id).kind = "ReplicaSet"
    THEN LET res == set_active(c.shards[shard_id], peer_id, active)
         IN [ok |-> res.ok, c |-> [c EXCEPT !.shards[shard_id] = res.rs]]
    ELSE [ok |-> FALSE, c |-> c]

\* handle_replica_changes for the change set {Add {shard, to, from}}: registers the
\* replica as inactive; a replica on this peer gets a local shard and a sync transfer
\* is requested, a replica elsewhere gets a remote shard
handle_replica_add(c, this_peer_id, shard_id, peer_id, from_peer_id) ==
    LET replica_set == get_shard(c, shard_id)
        added == add_inactive_replica_state(replica_set, peer_id)
    IN IF replica_set.kind # "ReplicaSet"
       THEN [ok |-> TRUE, c |-> c, requested |-> {}]
       ELSE IF ~added.ok
       THEN [ok |-> FALSE, c |-> c, requested |-> {}]
       ELSE IF peer_id = this_peer_id
       THEN [ok |-> TRUE,
             c |-> [c EXCEPT !.shards[shard_id] =
                       [added.rs EXCEPT !.local = IF @ = "None" THEN "Local" ELSE @]],
             requested |-> {ShardTransfer(shard_id, from_peer_id, this_peer_id, TRUE)}]
       ELSE [ok |-> TRUE,
             c |-> [c EXCEPT !.shards[shard_id] =
                       [added.rs EXCEPT !.remotes = Append(@, peer_id)]],
             requested |-> {}]

\* handle_replica_changes for the change set {Remove(shard, peer)}: removes the
\* replica; a set left with a single replica is replaced by that replica
handle_replica_remove(c, this_peer_id, shard_id, peer_id) ==
    LET replica_set == get_shard(c, shard_id)
        removed == remove_replica(replica_set, this_peer_id, peer_id)
        remaining_replicas_after_removal == Len(peer_ids(removed.rs, this_peer_id))
        shard_to_promote ==
            IF removed.rs.local # "None"
            THEN PlainShard(removed.rs.local, NoPeer)
            ELSE RemoteShard(removed.rs.remotes[1])
    IN IF replica_set.kind # "ReplicaSet"
       THEN [ok |-> TRUE, c |-> c, requested |-> {}]
       ELSE IF ~removed.ok
       THEN [ok |-> FALSE, c |-> c, requested |-> {}]
       ELSE IF remaining_replicas_after_removal = 1
       THEN [ok |-> TRUE, c |-> [c EXCEPT !.shards[shard_id] = shard_to_promote],
             requested |-> {}]
       ELSE [ok |-> TRUE, c |-> [c EXCEPT !.shards[shard_id] = removed.rs],
             requested |-> {}]

(***************************************************************************)
(* Transfer task (modelled from the design document)                       *)
(***************************************************************************)
\* first step of the spawned task: a non-sync transfer wraps the Local shard as a
\* ForwardProxy pointing at `to`; a sync transfer wraps nothing
task_begin(c, key) ==
    LET task == c.tasks[key]
    IN IF task.sync
       THEN [c EXCEPT !.tasks[key].st = "streaming"]
       ELSE IF get_shard(c, key.shard_id).kind = "Local"
       THEN [c EXCEPT !.shards[key.shard_id] = ForwardProxyShard(key.to),
                      !.tasks[key].st = "proxied"]
       ELSE [c EXCEPT !.tasks[key].st = "failed"]

NoTransfer == ShardTransfer(MissingShard, NoPeer, NoPeer, FALSE)

NoLast ==
    [op |-> "none", peer |-> NoPeer, t |-> NoTransfer, ret |-> "none", reg |-> FALSE,
     changed |-> FALSE, task_result |-> "None", spawned |-> FALSE, asserts |-> {}]

\* a Collection call on peer p returned res
Returned(op, p, t, res) ==
    /\ coll' = [coll EXCEPT ![p] = res.c]
    /\ last' = [op |-> op, peer |-> p, t |-> t, ret |-> res.ret, reg |-> res.reg,
                changed |-> res.c # coll[p], task_result |-> res.task_result,
                spawned |-> res.spawned, asserts |-> res.asserts]

\* a step that is not a Collection call under observation
Stepped(p, c) ==
    /\ coll' = [coll EXCEPT ![p] = c]
    /\ last' = NoLast

StartCall(p, t) == Returned("start", p, t, start_shard_transfer(coll[p], t, t.sync))
FinishCall(p, t) == Returned("finish", p, t, finish_shard_transfer(coll[p], t))
AbortCall(p, t) == Returned("abort", p, t, abort_shard_transfer(coll[p], t))

TaskBeginStep(p, key) ==
    /\ key \in DOMAIN coll[p].tasks
    /\ coll[p].tasks[key].st = "spawned"
    /\ Stepped(p, task_begin(coll[p], key))

\* the task asks the destination peer for a temporary shard and starts streaming
TaskInitTempStep(p, key) ==
    /\ key \in DOMAIN coll[p].tasks
    /\ coll[p].tasks[key].st = "proxied"
    /\ LET c1 == [coll[p] EXCEPT !.tasks[key].st = "streaming"]
           cs == [coll EXCEPT ![p] = c1]
       IN coll' = [cs EXCEPT ![key.to] = initiate_temporary_shard(cs[key.to], key.shard_id)]
    /\ last' = NoLast

\* the stream completed: the task ends with Ok(true) and on_finish runs
TaskDoneStep(p, key) ==
    /\ key \in DOMAIN coll[p].tasks
    /\ coll[p].tasks[key].st = "streaming"
    /\ Stepped(p, [coll[p] EXCEPT !.tasks[key].st = "finished"])

\* the task hit an error: it ends with a failure and on_error runs
TaskFailStep(p, key) ==
    /\ key \in DOMAIN coll[p].tasks
    /\ coll[p].tasks[key].st \in {"spawned", "proxied", "streaming"}
    /\ Stepped(p, [coll[p] EXCEPT !.tasks[key].st = "failed"])

(***************************************************************************)
(* Cluster topologies and the transfers proposed for them                  *)
(***************************************************************************)
NewCollection(shard) ==
    [shards |-> [s \in ShardIds |-> shard], temp |-> {}, transfers |-> {}, tasks |-> EmptyMap]

\* Collection::new on every peer from one shard distribution: a plain shard owned by
\* one peer, or a replica set with replicas on the peers of `replicas`
PlainCluster(owner) ==
    [p \in Peers |-> NewCollection(IF p = owner THEN LocalShard ELSE RemoteShard(owner))]

ReplicatedCluster(replicas) ==
    [p \in Peers |-> NewCollection(build(p, p \in replicas, replicas \ {p}))]

\* the transfers proposed for a plain shard: relocations from its owner (non-sync),
\* and one for a shard id the collection does not have
PlainTransfers(owner) ==
    {ShardTransfer(s, owner, to, FALSE) : s \in ShardIds, to \in Peers \ {owner}}
    \cup {ShardTransfer(MissingShard, owner, CHOOSE to \in Peers : to # owner, FALSE)}

\* the transfers proposed for a replicated shard: syncs between two of its replicas
ReplicaTransfers(replicas) ==
    {ShardTransfer(s, from, to, TRUE) :
        s \in ShardIds, from \in replicas, to \in replicas} \ 
    {ShardTransfer(s, q, q, TRUE) : s \in ShardIds, q \in replicas}

NoProto ==
    [inputs |-> {}, started |-> {}, outcome |-> "none", phase |-> [p \in Peers |-> "none"]]
NoUpdate == IdleUpdate

(***************************************************************************)
(* SpecTransfer: the Collection of ThisPeer under any sequence of calls.   *)
(* proto.inputs are the transfers consensus may deliver for the cluster,   *)
(* proto.started those whose StartTransfer this peer has applied.          *)
(***************************************************************************)
InitTransfer ==
    /\ \/ \E o \in Peers :
            /\ coll = PlainCluster(o)
            /\ proto = [NoProto EXCEPT !.inputs = PlainTransfers(o)]
       \/ \E r \in {x \in SUBSET Peers : Cardinality(x) >= 2} :
            /\ coll = ReplicatedCluster(r)
            /\ proto = [NoProto EXCEPT !.inputs = ReplicaTransfers(r)]
    /\ last = NoLast
    /\ upd = NoUpdate
    /\ cbLog = <<>>

StartShardTransfer(t) ==
    /\ Cardinality(coll[ThisPeer].transfers \cup {t}) <= MaxTransfers
    /\ StartCall(ThisPeer, t)
    /\ proto' = [proto EXCEPT !.started = @ \cup {t}]
    /\ UNCHANGED <<upd, cbLog>>

\* FinishTransfer and AbortTransfer follow StartTransfer in the log; either may be
\* delivered more than once
FinishShardTransfer(t) ==
    /\ t \in proto.started
    /\ FinishCall(ThisPeer, t)
    /\ UNCHANGED <<proto, upd, cbLog>>

AbortShardTransfer(t) ==
    /\ t \in proto.started
    /\ AbortCall(ThisPeer, t)
    /\ UNCHANGED <<proto, upd, cbLog>>

\* a transfer task running on another peer asks this peer for a temporary shard
InitiateTemporaryShard(shard_id) ==
    /\ \E t \in proto.inputs :
          t.shard_id = shard_id /\ t.to = ThisPeer /\ t.from # ThisPeer /\ ~t.sync
    /\ Stepped(ThisPeer, initiate_temporary_shard(coll[ThisPeer], shard_id))
    /\ UNCHANGED <<proto, upd, cbLog>>

\* takes the shard holder's write lock: not while a write holds it for reading
SetShardReplicaState(shard_id, peer_id, active) ==
    /\ upd.phase = "idle"
    /\ set_shard_replica_state(coll[ThisPeer], shard_id, peer_id, active).ok
    /\ Stepped(ThisPeer, set_shard_replica_state(coll[ThisPeer], shard_id, peer_id, active).c)
    /\ UNCHANGED <<proto, upd, cbLog>>

TaskBegin(key) == TaskBeginStep(ThisPeer, key) /\ UNCHANGED <<proto, upd, cbLog>>
TaskInitTemp(key) == TaskInitTempStep(ThisPeer, key) /\ UNCHANGED <<proto, upd, cbLog>>
TaskDone(key) == TaskDoneStep(ThisPeer, key) /\ UNCHANGED <<proto, upd, cbLog>>
TaskFail(key) == TaskFailStep(ThisPeer, key) /\ UNCHANGED <<proto, upd, cbLog>>

TaskKeys == DOMAIN coll[ThisPeer].tasks

NextTransfer ==
    \/ \E t \in proto.inputs : StartShardTransfer(t)
    \/ \E t \in proto.inputs : FinishShardTransfer(t)
    \/ \E t \in proto.inputs : AbortShardTransfer(t)
    \/ \E s \in ShardIds : InitiateTemporaryShard(s)
    \/ \E s \in ShardIds, q \in Peers, b \in BOOLEAN : SetShardReplicaState(s, q, b)
    \/ \E k \in TaskKeys : TaskBegin(k)
    \/ \E k \in TaskKeys : TaskInitTemp(k)
    \/ \E k \in TaskKeys : TaskDone(k)
    \/ \E k \in TaskKeys : TaskFail(k)

SpecTransfer == InitTransfer /\ [][NextTransfer]_vars

(***************************************************************************)
(* SpecCluster: one non-sync transfer driven through the cluster in the    *)
(* order consensus applies it: StartTransfer on every peer, the task on    *)
(* the source, then FinishTransfer (after on_finish) or AbortTransfer      *)
(* (after on_error) on every peer.                                         *)
(***************************************************************************)
ClusterTransfer == CHOOSE t \in proto.inputs : TRUE

InitCluster ==
    /\ \E a \in Peers : \E b \in Peers \ {a} :
          /\ coll = PlainCluster(a)
          /\ proto = [inputs |-> {ShardTransfer(0, a, b, FALSE)}, started |-> {},
                      outcome |-> "none", phase |-> [p \in Peers |-> "init"]]
    /\ last = NoLast
    /\ upd = NoUpdate
    /\ cbLog = <<>>

ClusterStart(p) ==
    /\ proto.phase[p] = "init"
    /\ StartCall(p, ClusterTransfer)
    /\ proto' = [proto EXCEPT !.phase[p] = "started"]
    /\ UNCHANGED <<upd, cbLog>>

ClusterTaskBegin(p) ==
    TaskBeginStep(p, TransferKey(ClusterTransfer)) /\ UNCHANGED <<proto, upd, cbLog>>

ClusterTaskInitTemp(p) ==
    TaskInitTempStep(p, TransferKey(ClusterTransfer)) /\ UNCHANGED <<proto, upd, cbLog>>

\* on_finish proposes FinishTransfer
ClusterTaskDone(p) ==
    /\ TaskDoneStep(p, TransferKey(ClusterTransfer))
    /\ proto' = [proto EXCEPT !.outcome = "finish"]
    /\ UNCHANGED <<upd, cbLog>>

\* on_error proposes AbortTransfer
ClusterTaskFail(p) ==
    /\ TaskFailStep(p, TransferKey(ClusterTransfer))
    /\ proto' = [proto EXCEPT !.outcome = "abort"]
    /\ UNCHANGED <<upd, cbLog>>

ClusterFinish(p) ==
    /\ proto.outcome = "finish"
    /\ proto.phase[p] = "started"
    /\ FinishCall(p, ClusterTransfer)
    /\ proto' = [proto EXCEPT !.phase[p] = "finished"]
    /\ UNCHANGED <<upd, cbLog>>

ClusterAbort(p) ==
    /\ proto.outcome = "abort"
    /\ proto.phase[p] = "started"
    /\ AbortCall(p, ClusterTransfer)
    /\ proto' = [proto EXCEPT !.phase[p] = "aborted"]
    /\ UNCHANGED <<upd, cbLog>>

NextCluster ==
    \/ \E p \in Peers : ClusterStart(p)
    \/ \E p \in Peers : ClusterTaskBegin(p)
    \/ \E p \in Peers : ClusterTaskInitTemp(p)
    \/ \E p \in Peers : ClusterTaskDone(p)
    \/ \E p \in Peers : ClusterTaskFail(p)
    \/ \E p \in Peers : ClusterFinish(p)
    \/ \E p \in Peers : ClusterAbort(p)

SpecCluster == InitCluster /\ [][NextCluster]_vars

(***************************************************************************)
(* SpecReplica: the replica set of ThisPeer under replica changes, state   *)
(* changes and writes.  A write holds the shard holder for reading from    *)
(* its first step to its return, so no change interleaves with it.         *)
(***************************************************************************)
InitReplica ==
    /\ \E r \in SUBSET Peers \ {{}} : coll = ReplicatedCluster(r)
    /\ proto = NoProto
    /\ last = NoLast
    /\ upd = NoUpdate
    /\ cbLog = <<>>

\* the sync transfer asked for through request_shard_transfer becomes a proposal
HandleReplicaAdd(shard_id, peer_id, from_peer_id) ==
    /\ upd.phase = "idle"
    /\ LET res == handle_replica_add(coll[ThisPeer], ThisPeer, shard_id, peer_id, from_peer_id)
       IN /\ res.ok
          /\ Stepped(ThisPeer, res.c)
          /\ proto' = [proto EXCEPT !.inputs = @ \cup res.requested]
    /\ UNCHANGED <<upd, cbLog>>

HandleReplicaRemove(shard_id, peer_id) ==
    /\ upd.phase = "idle"
    /\ LET res == handle_replica_remove(coll[ThisPeer], ThisPeer, shard_id, peer_id)
       IN /\ res.ok
          /\ Stepped(ThisPeer, res.c)
    /\ UNCHANGED <<proto, upd, cbLog>>

\* the sequences that list every element of a set once
Orders(S) ==
    {o \in [1..Cardinality(S) -> S] : \A i, j \in 1..Cardinality(S) : o[i] = o[j] => i = j}

\* apply_state on the replica set of the slot, for every iteration order of the two
\* maps and every outcome of the disk; last keeps what the call returned: for Ok
\* whether the target was empty, whether the map is the target, whether this peer left
\* the map and whether the local shard was dropped; for Err whether a map changed
ApplyState(shard_id, replicas, io) ==
    /\ upd.phase = "idle"
    /\ get_shard(coll[ThisPeer], shard_id).kind = "ReplicaSet"
    /\ LET rs == coll[ThisPeer].shards[shard_id]
       IN \E removed_order \in Orders(DOMAIN rs.replica_state \ DOMAIN replicas) :
          \E order \in Orders(DOMAIN replicas) :
             LET res == apply_state(rs, ThisPeer, replicas, removed_order, order, io)
             IN /\ coll' = [coll EXCEPT ![ThisPeer].shards[shard_id] = res.rs]
                /\ last' = [op |-> "apply_state", ret |-> res.ret,
                            new_peer |-> ~(DOMAIN replicas \subseteq DOMAIN rs.replica_state),
                            empty |-> res.ret = "ok" /\ DOMAIN replicas = {},
                            applied |-> res.ret = "ok" /\ res.rs.replica_state = replicas,
                            must_drop |-> /\ res.ret = "ok"
                                          /\ ThisPeer \in DOMAIN rs.replica_state
                                          /\ ThisPeer \notin DOMAIN replicas,
                            dropped |-> res.ret = "ok" /\ res.dropped,
                            changed |-> /\ res.ret = "err"
                                        /\ \/ res.rs.replica_state # rs.replica_state
                                           \/ res.rs.persisted # rs.persisted]
    /\ UNCHANGED <<proto, upd, cbLog>>

\* the process stops at any point between two calls and the replica set is reopened
Reopen(shard_id) ==
    /\ upd.phase = "idle"
    /\ get_shard(coll[ThisPeer], shard_id).kind = "ReplicaSet"
    /\ Stepped(ThisPeer, [coll[ThisPeer] EXCEPT !.shards[shard_id] = reopen(@)])
    /\ UNCHANGED <<proto, upd, cbLog>>

UpdateBegin(shard_id) ==
    /\ upd.phase = "idle"
    /\ get_shard(coll[ThisPeer], shard_id).kind = "ReplicaSet"
    /\ upd' = update_begin(coll[ThisPeer].shards[shard_id], shard_id, ThisPeer)
    /\ UNCHANGED <<coll, last, proto, cbLog>>

UpdatePoll(outcome) ==
    /\ upd.phase = "running"
    /\ upd' = update_poll(upd, outcome).u
    /\ cbLog' = cbLog \o update_poll(upd, outcome).notified
    /\ UNCHANGED <<coll, last, proto>>

\* the caller has the result; the next write starts with an empty callback log
UpdateReturn ==
    /\ upd.phase = "done"
    /\ upd' = IdleUpdate
    /\ cbLog' = <<>>
    /\ UNCHANGED <<coll, last, proto>>

NextReplica ==
    \/ \E s \in ShardIds, q \in Peers, b \in BOOLEAN : SetShardReplicaState(s, q, b)
    \/ \E s \in ShardIds, q \in Peers, f \in Peers : HandleReplicaAdd(s, q, f)
    \/ \E s \in ShardIds, q \in Peers : HandleReplicaRemove(s, q)
    \/ \E s \in ShardIds : UpdateBegin(s)
    \/ \E outcome \in [Peers -> {"pending", "ok", "err"}] : UpdatePoll(outcome)
    \/ UpdateReturn

SpecReplica == InitReplica /\ [][NextReplica]_vars

(***************************************************************************)
(* Replica-set state of one peer: replica changes, apply_state and restarts *)
(***************************************************************************)
\* one call at a time: the result of apply_state is looked at before the next call
NoPendingResult == last.op # "apply_state"

ApplySetActive(shard_id, peer_id, active) ==
    NoPendingResult /\ SetShardReplicaState(shard_id, peer_id, active)

ApplyAddReplica(shard_id, peer_id) ==
    NoPendingResult /\ HandleReplicaAdd(shard_id, peer_id, CHOOSE f \in Peers : f # ThisPeer)

ApplyRemoveReplica(shard_id, peer_id) ==
    NoPendingResult /\ HandleReplicaRemove(shard_id, peer_id)

ApplyStateCall(shard_id, replicas, io) ==
    NoPendingResult /\ ApplyState(shard_id, replicas, io)

ApplyReopen(shard_id) ==
    NoPendingResult /\ Reopen(shard_id)

ApplyStateReturn ==
    /\ last.op = "apply_state"
    /\ last' = NoLast
    /\ UNCHANGED <<coll, proto, upd, cbLog>>

NextApply ==
    \/ \E s \in ShardIds, q \in Peers, b \in BOOLEAN : ApplySetActive(s, q, b)
    \/ \E s \in ShardIds, q \in Peers : ApplyAddReplica(s, q)
    \/ \E s \in ShardIds, q \in Peers : ApplyRemoveReplica(s, q)
    \/ \E s \in ShardIds, k \in SUBSET Peers :
          \E replicas \in [k -> BOOLEAN], io \in DiskOutcomes :
             ApplyStateCall(s, replicas, io)
    \/ \E s \in ShardIds : ApplyReopen(s)
    \/ ApplyStateReturn

SpecApply == InitReplica /\ [][NextApply]_vars

(***************************************************************************)
(* SpecRead: reads on the replica set of ThisPeer in a cluster of          *)
(* NumReadPeers peers.  upd holds the read in flight; it holds the shard   *)
(* holder for reading, so no change interleaves with it.                   *)
(***************************************************************************)
InitRead ==
    /\ \E r \in SUBSET {ThisPeer, ThisPeer + 1} \ {{}} :
          coll = [p \in ReadPeers |-> NewCollection(build(p, p \in r, r \ {p}))]
    /\ proto = NoProto
    /\ last = NoLast
    /\ upd = IdleRead
    /\ cbLog = <<>>

ReadSetActive(shard_id, peer_id, active) == SetShardReplicaState(shard_id, peer_id, active)

ReadAddReplica(shard_id, peer_id) ==
    HandleReplicaAdd(shard_id, peer_id, CHOOSE f \in ReadPeers : f # peer_id)

ReadBegin(shard_id) ==
    /\ upd.phase = "idle"
    /\ get_shard(coll[ThisPeer], shard_id).kind = "ReplicaSet"
    /\ upd' = read_begin(coll[ThisPeer].shards[shard_id], shard_id, ThisPeer)
    /\ UNCHANGED <<coll, last, proto, cbLog>>

ReadPoll(q, outcome) ==
    /\ upd.phase \in {"local", "first", "remaining"}
    /\ q \in SeqToSet(tier(upd))
    /\ upd.st[q] \in {"new", "pending"}
    /\ upd' = read_poll(upd, coll[ThisPeer].shards[upd.shard_id], q, outcome)
    /\ UNCHANGED <<coll, last, proto, cbLog>>

ReadReturn ==
    /\ upd.phase = "done"
    /\ upd' = IdleRead
    /\ UNCHANGED <<coll, last, proto, cbLog>>

NextRead ==
    \/ \E s \in ShardIds, q \in ReadPeers, b \in BOOLEAN : ReadSetActive(s, q, b)
    \/ \E s \in ShardIds, q \in ReadPeers : ReadAddReplica(s, q)
    \/ \E s \in ShardIds : ReadBegin(s)
    \/ \E q \in ReadPeers, outcome \in {"pending", "ok", "err"} : ReadPoll(q, outcome)
    \/ ReadReturn

SpecRead == InitRead /\ [][NextRead]_vars

(***************************************************************************)
(* ConsensusState: the applied-entries cursor and the waiters of proposals  *)
(***************************************************************************)
NumCallers == 2
MaxEntries == 3

Callers == 1..NumCallers
NoCaller == NoPeer

\* ConsensusOperations: two collection meta operations and three peer operations
ConsensusOperations ==
    {[kind |-> "CollectionMeta", arg |-> m] : m \in 1..2}
    \cup {[kind |-> "RemovePeer", arg |-> ThisPeer], [kind |-> "AddPeer", arg |-> ThisPeer + 1],
          [kind |-> "RemovePeer", arg |-> ThisPeer + 2]}

NoOperation == [kind |-> "None", arg |-> NoPeer]

\* Result<bool, StorageError> of applying an operation
OpResults == {"Ok(true)", "Ok(false)", "ServiceError", "UserError"}

\* the disk fault of one apply_entries call: none, or the first save_if_dirty, WAL
\* read or entry_applied of the call fails
Faults == {"none", "save_if_dirty", "wal", "entry_applied"}

\* ConsensusState::new: empty WAL, nothing to apply, no waiter, leader not established;
\* the persisted state knows this peer and one other
NewConsensusState ==
    [wal |-> <<>>, first_unapplied |-> 1, is_leader_established |-> FALSE,
     on_consensus_op_apply |-> [o \in ConsensusOperations |-> NoCaller],
     peers |-> {ThisPeer, ThisPeer + 2}, stopped |-> FALSE]

\* a caller of propose_consensus_op_with_await: st is idle, waiting or returned;
\* applied is the result of the first application of the entry this caller proposed
\* and waiter_at_apply whether its waiter was in the registry at that moment (both
\* kept for the properties)
IdleCaller ==
    [st |-> "idle", op |-> NoOperation, ret |-> "none", applied |-> "none",
     waiter_at_apply |-> "none"]

\* current_unapplied_entry of the persisted queue [first_unapplied, last_committed]
has_unapplied_entry(cs) ==
    cs.first_unapplied <= Len(cs.wal)

\* entry_applied: the queue moves to the next entry
entry_applied(cs) ==
    [cs EXCEPT !.first_unapplied = @ + 1]

\* oneshot send: a waiter still waiting returns what was sent; the result of
\* applying the entry a caller proposed is noted the first time it is applied
send(callers, waiter, result) ==
    IF waiter # NoCaller /\ callers[waiter].st = "waiting"
    THEN [callers EXCEPT ![waiter].st = "returned", ![waiter].ret = result]
    ELSE callers

note_waiter(callers, entry, on_apply) ==
    IF entry.by # NoCaller /\ callers[entry.by].waiter_at_apply = "none"
    THEN [callers EXCEPT ![entry.by].waiter_at_apply =
                             IF on_apply = entry.by THEN "present" ELSE "missing"]
    ELSE callers

note_applied(callers, entry, result) ==
    IF entry.by # NoCaller /\ callers[entry.by].applied = "none"
          /\ callers[entry.by].ret # "Timeout"
    THEN [callers EXCEPT ![entry.by].applied = result]
    ELSE callers

\* apply_normal_entry: an unreadable entry is a service error; otherwise the waiter of
\* the operation value is taken out of the registry, the meta operation is performed
\* (result: what the catalogue answers) and the result is sent to the waiter
apply_normal_entry(cs, callers, entry, result) ==
    IF ~entry.readable
    THEN [result |-> "ServiceError", cs |-> cs, callers |-> callers,
          waiter |-> NoCaller, delivered |-> "none"]
    ELSE LET on_apply == cs.on_consensus_op_apply[entry.op]
             res == IF entry.op.kind = "CollectionMeta" THEN result ELSE "Ok(false)"
         IN [result |-> res,
             cs |-> [cs EXCEPT !.on_consensus_op_apply[entry.op] = NoCaller],
             callers |-> send(note_applied(note_waiter(callers, entry, on_apply), entry, res),
                              on_apply, res),
             waiter |-> on_apply,
             delivered |-> IF on_apply # NoCaller THEN res ELSE "none"]

\* every removal asks to stop
removes_a_peer(operation) ==
    operation.kind = "RemovePeer"

\* RemoveNode: self.this_peer_id() == single_change.node_id
removes_this_peer(operation) ==
    operation.kind = "RemovePeer" /\ operation.arg = ThisPeer

\* apply_conf_change_entry for an entry with one change: a failure (decoding, the
\* consensus engine, saving) returns the error before the registry is looked at;
\* RemoveNode removes the peer and asks to stop when it is this peer, AddLearnerNode
\* adds the peer; the waiter of the operation is taken out and gets Ok(true)
apply_conf_change_entry(cs, callers, entry, result) ==
    IF result \notin {"Ok(true)", "Ok(false)"}
    THEN [result |-> "ServiceError", stop_consensus |-> FALSE, cs |-> cs, callers |-> callers,
          waiter |-> cs.on_consensus_op_apply[entry.op], delivered |-> "none"]
    ELSE LET on_apply == cs.on_consensus_op_apply[entry.op]
         IN [result |-> "Ok(true)",
             stop_consensus |-> removes_this_peer(entry.op),
             cs |-> [cs EXCEPT !.on_consensus_op_apply[entry.op] = NoCaller,
                               !.peers = IF entry.op.kind = "RemovePeer"
                                         THEN @ \ {entry.op.arg}
                                         ELSE @ \cup {entry.op.arg}],
             callers |-> send(note_applied(note_waiter(callers, entry, on_apply), entry,
                                           "Ok(true)"),
                              on_apply, "Ok(true)"),
             waiter |-> on_apply,
             delivered |-> IF on_apply # NoCaller THEN "Ok(true)" ELSE "none"]

\* one line of the record of an apply_entries call
Attempt(entry_index, entry, result, waiter, delivered, save_failed) ==
    [index |-> entry_index, type |-> entry.type, op |-> entry.op, result |-> result,
     waiter |-> waiter, delivered |-> delivered, save_failed |-> save_failed]

\* apply_entries, the loop: takes the current unapplied entry, applies it by its
\* type, and moves the queue on unless the entry asks for a retry; results gives the
\* answer of the catalogue or of the consensus engine for each entry
RECURSIVE apply_loop(_, _, _, _, _)
apply_loop(cs, callers, results, fault, log) ==
    IF ~has_unapplied_entry(cs)
    THEN [ret |-> FALSE, cs |-> cs, callers |-> callers, log |-> log]
    ELSE LET entry_index == cs.first_unapplied
             entry == cs.wal[entry_index]
             normal == apply_normal_entry(cs, callers, entry, results[entry_index])
             conf == apply_conf_change_entry(cs, callers, entry, results[entry_index])
             applied ==
                 IF entry.type = "Empty"
                 THEN [result |-> "Ok(true)", stop_consensus |-> FALSE,
                       cs |-> [cs EXCEPT !.is_leader_established = TRUE],
                       callers |-> callers, waiter |-> NoCaller, delivered |-> "none"]
                 ELSE IF entry.type = "EntryNormal"
                 THEN [result |-> normal.result, stop_consensus |-> FALSE, cs |-> normal.cs,
                       callers |-> normal.callers, waiter |-> normal.waiter,
                       delivered |-> normal.delivered]
                 ELSE IF entry.type = "EntryConfChangeV2"
                 THEN conf
                 ELSE [result |-> "Unsupported", stop_consensus |-> FALSE, cs |-> cs,
                       callers |-> callers, waiter |-> NoCaller, delivered |-> "none"]
             do_increase_applied_index ==
                 IF entry.type = "EntryNormal"
                 THEN applied.result # "ServiceError"
                 ELSE applied.result \in {"Ok(true)", "Ok(false)"}
             line(save_failed) ==
                 Attempt(entry_index, entry, applied.result, applied.waiter,
                         applied.delivered, save_failed)
         IN IF fault = "wal" /\ log = <<>>
            THEN [ret |-> FALSE, cs |-> cs, callers |-> callers, log |-> log]
            ELSE IF applied.stop_consensus
            THEN [ret |-> TRUE, cs |-> [applied.cs EXCEPT !.stopped = TRUE],
                  callers |-> applied.callers, log |-> Append(log, line(FALSE))]
            ELSE IF ~do_increase_applied_index
            THEN [ret |-> FALSE, cs |-> applied.cs, callers |-> applied.callers,
                  log |-> Append(log, line(FALSE))]
            ELSE IF fault = "entry_applied"
            THEN [ret |-> FALSE, cs |-> applied.cs, callers |-> applied.callers,
                  log |-> Append(log, line(TRUE))]
            ELSE apply_loop(entry_applied(applied.cs), applied.callers, results, fault,
                            Append(log, line(FALSE)))

\* apply_entries: nothing is applied when the queue cannot be saved first
apply_entries(cs, callers, results, fault) ==
    IF fault = "save_if_dirty"
    THEN [ret |-> FALSE, cs |-> cs, callers |-> callers, log |-> <<>>]
    ELSE apply_loop(cs, callers, results, fault, <<>>)

\* propose_consensus_op_with_await with the leader established: under the registry
\* lock the operation goes to the proposer and the waiter is inserted under the
\* operation value; a sender that was there is dropped and its receiver returns
propose_consensus_op_with_await(callers, cs, c, operation) ==
    LET replaced == cs.on_consensus_op_apply[operation]
        dropped == IF replaced # NoCaller /\ callers[replaced].st = "waiting"
                   THEN [callers EXCEPT ![replaced].st = "returned",
                                        ![replaced].ret = "SenderDropped"]
                   ELSE callers
    IN [cs |-> [cs EXCEPT !.on_consensus_op_apply[operation] = c],
        callers |-> [dropped EXCEPT ![c].st = "waiting", ![c].op = operation]]

\* the entry the consensus engine commits for a proposal: peer operations travel as
\* configuration changes, meta operations as normal entries
EntryOf(proposal) ==
    [type |-> IF proposal.op.kind = "CollectionMeta" THEN "EntryNormal"
              ELSE "EntryConfChangeV2",
     op |-> proposal.op, readable |-> TRUE, by |-> proposal.by]

\* entries that come from no proposal of this peer: the empty entry of a new leader,
\* an entry of another type, a normal entry that cannot be decoded
OtherEntries ==
    {[type |-> "Empty", op |-> NoOperation, readable |-> TRUE, by |-> NoCaller],
     [type |-> "EntryConfChange", op |-> NoOperation, readable |-> TRUE, by |-> NoCaller],
     [type |-> "EntryNormal", op |-> NoOperation, readable |-> FALSE, by |-> NoCaller]}

InitConsensus ==
    /\ coll = NewConsensusState
    /\ upd = [c \in Callers |-> IdleCaller]
    /\ proto = <<>>
    /\ last = NoLast
    /\ cbLog = <<>>

\* the leader is not established within the deadline
ProposeWithoutLeader(c) ==
    /\ upd[c].st = "idle"
    /\ ~coll.is_leader_established
    /\ upd' = [upd EXCEPT ![c].st = "returned", ![c].ret = "ServiceError"]
    /\ UNCHANGED <<coll, proto, last, cbLog>>

\* the proposer's channel is closed: the call returns before a waiter is inserted
ProposeSendFails(c, operation) ==
    /\ upd[c].st = "idle"
    /\ coll.is_leader_established
    /\ upd' = [upd EXCEPT ![c].st = "returned", ![c].op = operation,
                          ![c].ret = "ServiceError"]
    /\ UNCHANGED <<coll, proto, last, cbLog>>

Propose(c, operation) ==
    /\ upd[c].st = "idle"
    /\ coll.is_leader_established
    /\ LET res == propose_consensus_op_with_await(upd, coll, c, operation)
       IN /\ coll' = res.cs
          /\ upd' = res.callers
    /\ proto' = Append(proto, [op |-> operation, by |-> c])
    /\ UNCHANGED <<last, cbLog>>

\* the deadline of a waiting caller passes; its sender stays in the registry
WaitTimeout(c) ==
    /\ upd[c].st = "waiting"
    /\ upd' = [upd EXCEPT ![c].st = "returned", ![c].ret = "Timeout"]
    /\ UNCHANGED <<coll, proto, last, cbLog>>

\* append_entries and set_unapplied_entries: a proposal is committed
CommitProposal ==
    /\ proto # <<>>
    /\ Len(coll.wal) < MaxEntries
    /\ coll' = [coll EXCEPT !.wal = Append(@, EntryOf(Head(proto)))]
    /\ proto' = Tail(proto)
    /\ UNCHANGED <<upd, last, cbLog>>

CommitOther(entry) ==
    /\ Len(coll.wal) < MaxEntries
    /\ coll' = [coll EXCEPT !.wal = Append(@, entry)]
    /\ UNCHANGED <<proto, upd, last, cbLog>>

ApplyEntries(results, fault) ==
    /\ ~coll.stopped
    /\ LET res == apply_entries(coll, upd, results, fault)
       IN /\ coll' = res.cs
          /\ upd' = res.callers
          /\ last' = [op |-> "apply_entries", ret |-> res.ret,
                      from |-> coll.first_unapplied, to |-> res.cs.first_unapplied,
                      peers |-> coll.peers, log |-> res.log]
    /\ UNCHANGED <<proto, cbLog>>

NextConsensus ==
    \/ \E c \in Callers : ProposeWithoutLeader(c)
    \/ \E c \in Callers, o \in ConsensusOperations : ProposeSendFails(c, o)
    \/ \E c \in Callers, o \in ConsensusOperations : Propose(c, o)
    \/ \E c \in Callers : WaitTimeout(c)
    \/ CommitProposal
    \/ \E e \in OtherEntries : CommitOther(e)
    \/ \E results \in [coll.first_unapplied..Len(coll.wal) -> OpResults], fault \in Faults :
          ApplyEntries(results, fault)

SpecConsensus == InitConsensus /\ [][NextConsensus]_vars

(***************************************************************************)
(* propose_consensus_op_with_await step by step, against the consensus     *)
(* thread: the registry lock is taken, the operation is sent, the waiter   *)
(* is inserted, the lock is released                                       *)
(***************************************************************************)
\* no caller is between its send and its insert
lock_never_held(callers) ==
    FALSE

\* on_consensus_op_apply.lock() is held by a caller between its send and its insert
on_apply_lock(callers) ==
    \E c \in Callers : callers[c].st = "sending"

\* let mut on_apply_lock = ...lock(); propose_sender.send(operation.clone())?
ProposeSend(c, operation) ==
    /\ upd[c].st = "idle"
    /\ coll.is_leader_established
    /\ ~on_apply_lock(upd)
    /\ upd' = [upd EXCEPT ![c].st = "sending", ![c].op = operation]
    /\ proto' = Append(proto, [op |-> operation, by |-> c])
    /\ UNCHANGED <<coll, last, cbLog>>

\* on_apply_lock.insert(operation, sender), end of the block
ProposeInsert(c) ==
    /\ upd[c].st = "sending"
    /\ LET res == propose_consensus_op_with_await(upd, coll, c, upd[c].op)
       IN /\ coll' = res.cs
          /\ upd' = res.callers
    /\ UNCHANGED <<proto, last, cbLog>>

\* the consensus thread applies entries; taking a waiter out of the registry waits
\* for the lock
ApplyUnlocked(results, fault) ==
    /\ ~on_apply_lock(upd)
    /\ ApplyEntries(results, fault)

NextPropose ==
    \/ \E c \in Callers : ProposeWithoutLeader(c)
    \/ \E c \in Callers, o \in ConsensusOperations : ProposeSend(c, o)
    \/ \E c \in Callers : ProposeInsert(c)
    \/ \E c \in Callers : WaitTimeout(c)
    \/ CommitProposal
    \/ \E e \in OtherEntries : CommitOther(e)
    \/ \E results \in [coll.first_unapplied..Len(coll.wal) -> OpResults], fault \in Faults :
          ApplyUnlocked(results, fault)

SpecPropose == InitConsensus /\ [][NextPropose]_vars

(***************************************************************************)
(* ConsensusState as the log storage of the consensus engine: WAL,         *)
(* snapshot marker, catalogue, and raft's in-memory storage as reference   *)
(***************************************************************************)
MaxIndex == 4
MaxTerm == 2
MaxSize == 2

Indexes == 0..(MaxIndex + 1)

\* raft::Result values
Ok(v) == [ok |-> TRUE, val |-> v]
Err(e) == [ok |-> FALSE, val |-> e]
Panic == [ok |-> FALSE, val |-> "panic"]

\* SnapshotMetadata::default() and the catalogue before any snapshot
NoSnapshot == [index |-> 0, term |-> 0]

\* Persistent::load_or_init with an empty WAL; mem is raft's MemStorage fed the same
\* entries for as long as no snapshot was offered (pristine)
NewStorage ==
    [wal |-> <<>>, snapshot |-> NoSnapshot, catalogue |-> NoSnapshot, mem |-> <<>>,
     pristine |-> TRUE]

\* ConsensusOpWal::entry: the entry with that index, Unavailable when there is none
wal_entry(wal, idx) ==
    IF \E i \in 1..Len(wal) : wal[i].index = idx
    THEN Ok(wal[CHOOSE i \in 1..Len(wal) : wal[i].index = idx])
    ELSE Err("Unavailable")

\* limit_size: the longest prefix whose size (one unit per entry) stays within
\* max_size, and never less than one entry; max_size is an Option: {} is None (no
\* limit), {n} is Some(n)
limit_size(entries, max_size) ==
    IF max_size = {} \/ Len(entries) = 0
    THEN entries
    ELSE LET max == CHOOSE n \in max_size : TRUE
         IN SubSeq(entries, 1, IF max < 1 THEN 1 ELSE Min(max, Len(entries)))

\* ConsensusOpWal::entries: the entries with low <= index < high, limited in size
wal_entries(wal, low, high, max_size) ==
    Ok(limit_size(SelectSeq(wal, LAMBDA e : low <= e.index /\ e.index < high), max_size))

\* the first index without the snapshot marker
first_index_of_wal(cs) ==
    IF Len(cs.wal) > 0 THEN Head(cs.wal).index ELSE NoSnapshot.index + 1

\* Storage::first_index: the index of the first WAL entry, or the index after the
\* latest snapshot when the WAL is empty
first_index(cs) ==
    IF Len(cs.wal) > 0 THEN Head(cs.wal).index ELSE cs.snapshot.index + 1

\* Storage::last_index: the index of the last WAL entry, or of the latest snapshot
last_index(cs) ==
    IF Len(cs.wal) > 0 THEN cs.wal[Len(cs.wal)].index ELSE cs.snapshot.index

\* Storage::term
term(cs, idx) ==
    IF idx = cs.snapshot.index
    THEN Ok(cs.snapshot.term)
    ELSE IF wal_entry(cs.wal, idx).ok
    THEN Ok(wal_entry(cs.wal, idx).val.term)
    ELSE wal_entry(cs.wal, idx)

\* the range test of entries against nothing: every low is accepted
entries_unchecked(cs, low, high, max_size) ==
    IF high > last_index(cs) + 1
    THEN Panic
    ELSE wal_entries(cs.wal, low, high, max_size)

\* Storage::entries
entries(cs, low, high, max_size) ==
    IF low < first_index(cs)
    THEN Err("Compacted")
    ELSE IF high > last_index(cs) + 1
    THEN Panic
    ELSE wal_entries(cs.wal, low, high, max_size)

\* raft's MemStorage without a snapshot: first_index, last_index, term, entries
mem_first_index(mem) ==
    IF Len(mem) > 0 THEN Head(mem).index ELSE NoSnapshot.index + 1

mem_last_index(mem) ==
    IF Len(mem) > 0 THEN mem[Len(mem)].index ELSE NoSnapshot.index

mem_term(mem, idx) ==
    IF idx = NoSnapshot.index
    THEN Ok(NoSnapshot.term)
    ELSE IF idx < mem_first_index(mem)
    THEN Err("Compacted")
    ELSE IF idx > mem_last_index(mem)
    THEN Err("Unavailable")
    ELSE Ok(mem[idx - mem_first_index(mem) + 1].term)

mem_entries(mem, low, high, max_size) ==
    IF low < mem_first_index(mem)
    THEN Err("Compacted")
    ELSE IF high > mem_last_index(mem) + 1
    THEN Panic
    ELSE Ok(limit_size(SubSeq(mem, low - mem_first_index(mem) + 1,
                              high - mem_first_index(mem)), max_size))

\* apply_snapshot: an outdated snapshot is refused; then the data is decoded, the
\* catalogue takes the collection states, the WAL is cleared and the snapshot marker
\* is advanced; each of the four steps may fail (fault) and returns at once
apply_snapshot(cs, snapshot, fault) ==
    LET installed == [cs EXCEPT !.catalogue = snapshot]
        cleared == [installed EXCEPT !.wal = <<>>]
        marked == [cleared EXCEPT !.snapshot = snapshot]
    IN IF first_index(cs) > snapshot.index
       THEN [ok |-> FALSE, cs |-> cs]
       ELSE IF fault \in {"try_into", "apply_collections_snapshot"}
       THEN [ok |-> FALSE, cs |-> cs]
       ELSE IF fault = "clear"
       THEN [ok |-> FALSE, cs |-> installed]
       ELSE IF fault = "update_from_snapshot"
       THEN [ok |-> FALSE, cs |-> cleared]
       ELSE [ok |-> TRUE, cs |-> marked]

SnapshotFaults == {"none", "try_into", "apply_collections_snapshot", "clear", "update_from_snapshot"}

InitStorage ==
    /\ coll = NewStorage
    /\ last = NoLast
    /\ proto = NoProto
    /\ upd = NoUpdate
    /\ cbLog = <<>>

\* append_entries: the consensus engine appends the entry after the last index, with
\* a term that does not go down
AppendEntries(t) ==
    /\ last_index(coll) < MaxIndex
    /\ Len(coll.wal) > 0 => t >= coll.wal[Len(coll.wal)].term
    /\ Len(coll.wal) = 0 => t >= coll.snapshot.term
    /\ LET entry == [index |-> last_index(coll) + 1, term |-> t]
       IN coll' = [coll EXCEPT !.wal = Append(@, entry),
                               !.mem = IF coll.pristine THEN Append(@, entry) ELSE @]
    /\ last' = NoLast
    /\ UNCHANGED <<proto, upd, cbLog>>

ApplySnapshot(snapshot, fault) ==
    /\ LET res == apply_snapshot(coll, snapshot, fault)
       IN /\ coll' = [res.cs EXCEPT !.pristine = FALSE]
          /\ last' = [op |-> "apply_snapshot", ok |-> res.ok, snapshot |-> snapshot,
                      first_index |-> first_index(coll), wal |-> coll.wal,
                      marker |-> coll.snapshot, catalogue |-> coll.catalogue]
    /\ UNCHANGED <<proto, upd, cbLog>>

NextStorage ==
    \/ \E t \in 1..MaxTerm : AppendEntries(t)
    \/ \E i \in 0..MaxIndex, t \in 1..MaxTerm, fault \in SnapshotFaults :
          ApplySnapshot([index |-> i, term |-> t], fault)

SpecStorage == InitStorage /\ [][NextStorage]_vars

(***************************************************************************)
(* Collection::update_from_client: one update per shard, joined             *)
(***************************************************************************)
MaxShards == 3

\* what the update of one shard returns: an UpdateResult or a CollectionError
ShardResults == {Ok("Acknowledged"), Ok("Completed"), Err("BadInput"), Err("ServiceError")}

\* a future of join_all that has not completed
Pending == [pending |-> TRUE]

\* the failure at the highest position
last_err(results) ==
    results[CHOOSE i \in 1..Len(results) :
                ~results[i].ok /\ \A j \in (i + 1)..Len(results) : results[j].ok]

\* results.into_iter().find(Err): the failure at the lowest position
first_err(results) ==
    results[CHOOSE i \in 1..Len(results) :
                ~results[i].ok /\ \A j \in 1..(i - 1) : results[j].ok]

\* update_from_client once join_all has the result of every shard, in shard order
update_from_client(results) ==
    LET with_error == Cardinality({i \in 1..Len(results) : ~results[i].ok})
        result_len == Len(results)
    IN IF with_error > 0
       THEN IF with_error < result_len
            THEN Err([kind |-> "InconsistentShardFailure", shards_total |-> result_len,
                      shards_failed |-> with_error, first_err |-> first_err(results).val])
            ELSE first_err(results)
       ELSE results[Len(results)]

\* split_by_shard gave one operation for each of n shards; no update has returned
InitClientUpdate ==
    /\ \E n \in 1..MaxShards : upd = [i \in 1..n |-> Pending]
    /\ coll = <<>>
    /\ last = NoLast
    /\ proto = NoProto
    /\ cbLog = <<>>

\* the update of one shard completes; cbLog keeps the order of completion
ShardUpdateReturns(i, result) ==
    /\ i \in 1..Len(upd)
    /\ upd[i] = Pending
    /\ upd' = [upd EXCEPT ![i] = result]
    /\ cbLog' = Append(cbLog, i)
    /\ UNCHANGED <<coll, last, proto>>

ClientUpdateReturns ==
    /\ \A i \in 1..Len(upd) : upd[i] # Pending
    /\ last.op = "none"
    /\ last' = [op |-> "update_from_client", ret |-> update_from_client(upd)]
    /\ UNCHANGED <<coll, upd, proto, cbLog>>

NextClientUpdate ==
    \/ \E i \in 1..MaxShards, result \in ShardResults : ShardUpdateReturns(i, result)
    \/ ClientUpdateReturns

SpecClientUpdate == InitClientUpdate /\ [][NextClientUpdate]_vars

(***************************************************************************)
(* Collection::scroll_by and Collection::_search_batch: merging the        *)
(* answers of the shards.  usize is WordBits wide.                         *)
(***************************************************************************)
WordBits == 3
MaxPointId == 4
NumShards == 2

WordSize == 2 ^ WordBits
Words == 0..(WordSize - 1)
PointIds == 1..MaxPointId
Shards == 1..NumShards

\* an Option: {} is None, {x} is Some(x)
Some(x) == {x}
Unwrap(option) == CHOOSE x \in option : TRUE

\* usize addition: with overflow checks the build panics, without them it wraps
Add(a, b) ==
    [overflow |-> a + b >= WordSize, val |-> (a + b) % WordSize]

\* sorted_by_key(|point| point.id): the ids of a sequence in ascending order
RECURSIVE sorted_by_key(_)
sorted_by_key(seq) ==
    IF seq = <<>>
    THEN <<>>
    ELSE LET least == CHOOSE i \in 1..Len(seq) :
                          /\ \A j \in 1..Len(seq) : seq[i] <= seq[j]
                          /\ \A j \in 1..(i - 1) : seq[i] < seq[j]
         IN <<seq[least]>> \o
            sorted_by_key(SubSeq(seq, 1, least - 1) \o SubSeq(seq, least + 1, Len(seq)))

\* Iterator::take
take(seq, n) ==
    SubSeq(seq, 1, Min(n, Len(seq)))

\* flatten: the answers of the shards one after the other, in shard order
RECURSIVE flatten(_)
flatten(seqs) ==
    IF seqs = <<>> THEN <<>> ELSE Head(seqs) \o flatten(Tail(seqs))

\* the ids of a set as an ascending sequence
RECURSIVE Ascending(_)
Ascending(ids) ==
    IF ids = {}
    THEN <<>>
    ELSE LET least == CHOOSE i \in ids : \A j \in ids : i <= j
         IN <<least>> \o Ascending(ids \ {least})

\* the scroll of one shard: its ids from offset on, ascending, at most limit of them
shard_scroll_by(ids, offset, limit) ==
    take(Ascending({i \in ids : offset = {} \/ i >= Unwrap(offset)}), limit)

\* the end of scroll_by: a page shorter than limit + 1 is the last one, otherwise the
\* extra point is popped and its id is the offset of the next page
scroll_page(points, limit) ==
    IF Len(points) < limit
    THEN Ok([points |-> points, next_page_offset |-> {}])
    ELSE IF points = <<>>
    THEN Panic
    ELSE Ok([points |-> SubSeq(points, 1, Len(points) - 1),
             next_page_offset |-> Some(points[Len(points)])])

\* Collection::scroll_by over the ids held by each shard
scroll_by(shards, offset, request_limit, overflow_checks) ==
    LET limit == Add(request_limit, 1)
        retrieved_points == [sh \in 1..Len(shards) |->
                                shard_scroll_by(shards[sh], offset, limit.val)]
        points == take(sorted_by_key(flatten(retrieved_points)), limit.val)
    IN IF request_limit = 0
       THEN Err("BadRequest")
       ELSE IF limit.overflow /\ overflow_checks
       THEN Panic
       ELSE scroll_page(points, limit.val)

\* a collection whose points are spread over the shards, a scroll request, and the
\* build (with or without overflow checks); upd follows the pages of the client
InitScroll ==
    /\ \E place \in [PointIds -> Shards \cup {0}],
          offset \in {{}} \cup {Some(i) : i \in PointIds},
          limit \in Words, overflow_checks \in BOOLEAN :
          /\ coll = [shards |-> [sh \in Shards |-> {i \in PointIds : place[i] = sh}],
                     overflow_checks |-> overflow_checks]
          /\ upd = [offset |-> offset, limit |-> limit, from_start |-> offset = {},
                    visited |-> <<>>, finished |-> FALSE]
    /\ last = NoLast
    /\ proto = NoProto
    /\ cbLog = <<>>

\* the client asks for the page at upd.offset and goes on from next_page_offset
ScrollBy ==
    /\ ~upd.finished
    /\ LET res == scroll_by(coll.shards, upd.offset, upd.limit, coll.overflow_checks)
       IN /\ last' = [op |-> "scroll_by", offset |-> upd.offset, ret |-> res]
          /\ upd' = IF res.ok
                    THEN [upd EXCEPT !.visited = @ \o res.val.points,
                                     !.offset = res.val.next_page_offset,
                                     !.finished = res.val.next_page_offset = {}]
                    ELSE [upd EXCEPT !.finished = TRUE]
    /\ UNCHANGED <<coll, proto, cbLog>>

NextScroll ==
    ScrollBy

SpecScroll == InitScroll /\ [][NextScroll]_vars

\* the score of a point against the query: no two points score the same
ScoreFactor == 2
Score(id) == (id * ScoreFactor) % (MaxPointId + 1)

DistanceOrders == {"LargeBetter", "SmallBetter"}

\* a scores better than b in the distance's order
Better(a, b, order) ==
    IF order = "LargeBetter" THEN Score(a) > Score(b) ELSE Score(a) < Score(b)

\* peek_top_largest_iterable / peek_top_smallest_iterable: the top best points of a
\* sequence, best first
RECURSIVE peek_top(_, _, _)
peek_top(seq, top, order) ==
    IF seq = <<>> \/ top = 0
    THEN <<>>
    ELSE LET best == CHOOSE i \in 1..Len(seq) :
                         /\ \A j \in 1..Len(seq) : ~Better(seq[j], seq[i], order)
                         /\ \A j \in 1..(i - 1) : Better(seq[i], seq[j], order)
         IN <<seq[best]>> \o
            peek_top(SubSeq(seq, 1, best - 1) \o SubSeq(seq, best + 1, Len(seq)), top - 1, order)

\* the search of a local shard: its limit + offset best points, best first
shard_search(ids, limit, offset, order) ==
    peek_top(Ascending(ids), limit + offset, order)

\* target_shards: every shard, or the selected one
target_shards(shard_selection) ==
    IF shard_selection = {} THEN Ascending(Shards) ELSE <<Unwrap(shard_selection)>>

\* the offset is taken off the top results of a client's request only
drop_offset(top_res, offset, shard_selection) ==
    IF shard_selection = {} /\ offset > 0
    THEN IF Len(top_res) >= offset
         THEN SubSeq(top_res, offset + 1, Len(top_res))
         ELSE <<>>
    ELSE top_res

\* Collection::_search_batch for one query, from the answers of the target shards
_search_batch(all_searches_res, limit, offset, order, shard_selection, overflow_checks) ==
    LET merged_results == flatten(all_searches_res)
        top == Add(limit, offset)
        top_res == peek_top(merged_results, top.val, order)
    IN IF \E sh \in 1..Len(all_searches_res) : all_searches_res[sh] = "error"
       THEN Err("ServiceError")
       ELSE IF top.overflow /\ overflow_checks
       THEN Panic
       ELSE Ok(drop_offset(top_res, offset, shard_selection))

\* the search of a remote shard: _search_batch of the peer that holds it, with the
\* shard selected
remote_search(ids, sh, limit, offset, order, overflow_checks) ==
    LET res == _search_batch(<<shard_search(ids, limit, offset, order)>>, limit, offset,
                             order, Some(sh), overflow_checks)
    IN IF res.ok THEN res.val ELSE "error"

\* a collection whose points are spread over the shards, one query, and the build
InitSearch ==
    /\ \E place \in [PointIds -> Shards \cup {0}],
          limit \in Words, offset \in Words, order \in DistanceOrders,
          shard_selection \in {{}} \cup {Some(sh) : sh \in Shards},
          overflow_checks \in BOOLEAN :
          /\ coll = [shards |-> [sh \in Shards |-> {i \in PointIds : place[i] = sh}],
                     overflow_checks |-> overflow_checks, order |-> order]
          /\ upd = [limit |-> limit, offset |-> offset, shard_selection |-> shard_selection,
                    searched |-> FALSE]
    /\ last = NoLast
    /\ proto = NoProto
    /\ cbLog = <<>>

\* _search_batch on a peer that holds the target shards itself
SearchLocalShards ==
    /\ ~upd.searched
    /\ LET targets == target_shards(upd.shard_selection)
           all_searches_res == [t \in 1..Len(targets) |->
                                   shard_search(coll.shards[targets[t]], upd.limit,
                                                upd.offset, coll.order)]
       IN last' = [op |-> "search", chain |-> FALSE,
                   ret |-> _search_batch(all_searches_res, upd.limit, upd.offset, coll.order,
                                         upd.shard_selection, coll.overflow_checks)]
    /\ upd' = [upd EXCEPT !.searched = TRUE]
    /\ UNCHANGED <<coll, proto, cbLog>>

\* _search_batch of a client's request on a peer whose shards are all remote
SearchRemoteShards ==
    /\ ~upd.searched
    /\ upd.shard_selection = {}
    /\ LET targets == target_shards(upd.shard_selection)
           all_searches_res == [t \in 1..Len(targets) |->
                                   remote_search(coll.shards[targets[t]], targets[t],
                                                 upd.limit, upd.offset, coll.order,
                                                 coll.overflow_checks)]
       IN last' = [op |-> "search", chain |-> TRUE,
                   ret |-> _search_batch(all_searches_res, upd.limit, upd.offset, coll.order,
                                         upd.shard_selection, coll.overflow_checks)]
    /\ upd' = [upd EXCEPT !.searched = TRUE]
    /\ UNCHANGED <<coll, proto, cbLog>>

NextSearch ==
    \/ SearchLocalShards
    \/ SearchRemoteShards

SpecSearch == InitSearch /\ [][NextSearch]_vars

(***************************************************************************)
(* segments_updater: the payload operations over a list of point ids.      *)
(***************************************************************************)
MaxRequest == 2
MaxValue == 1

PayloadKeys == {"k1", "k2"}

\* a payload gives each key a value, 0 for a key it does not have
Payloads == [PayloadKeys -> 0..MaxValue]
EmptyPayload == [k \in PayloadKeys |-> 0]

\* the ids of a request, in request order
Requests == UNION {[1..n -> PointIds] : n \in 1..MaxRequest}

\* the ids of a sequence
Range(seq) == {seq[i] : i \in 1..Len(seq)}

\* SegmentEntry::set_payload: the keys of the new payload replace those of the old one
segment_set_payload(old, payload) ==
    [k \in PayloadKeys |-> IF payload[k] # 0 THEN payload[k] ELSE old[k]]

\* SegmentEntry::delete_payload for each of the keys
segment_delete_payload(old, keys) ==
    [k \in PayloadKeys |-> IF k \in keys THEN 0 ELSE old[k]]

\* SegmentEntry::clear_payload
segment_clear_payload(old) ==
    EmptyPayload

\* SegmentHolder::apply_points_to_appendable: the closure is applied to every id of the
\* list that some segment holds (f[id] is what it makes of the payload of id); the ids
\* it was applied to are returned
apply_points_to_appendable(segments, points, f) ==
    LET applied == Range(points) \cap segments.stored
    IN [segments |-> [segments EXCEPT !.payload =
                         [id \in PointIds |-> IF id \in applied THEN f[id] ELSE @[id]]],
        updated_points |-> applied]

\* check_unprocessed_points: the first id of the request that was not processed
check_unprocessed_points(points, processed) ==
    LET unprocessed_points == SelectSeq(points, LAMBDA p : p \notin processed)
    IN IF unprocessed_points = <<>>
       THEN Ok(Cardinality(processed))
       ELSE Err([PointNotFound |-> Head(unprocessed_points)])

\* the end of the three payload operations
payload_result(applied, points) ==
    [segments |-> applied.segments,
     ret |-> check_unprocessed_points(points, applied.updated_points)]

set_payload(segments, payload, points) ==
    payload_result(apply_points_to_appendable(segments, points,
                       [id \in PointIds |-> segment_set_payload(segments.payload[id], payload)]),
                   points)

delete_payload(segments, points, keys) ==
    payload_result(apply_points_to_appendable(segments, points,
                       [id \in PointIds |-> segment_delete_payload(segments.payload[id], keys)]),
                   points)

clear_payload(segments, points) ==
    payload_result(apply_points_to_appendable(segments, points,
                       [id \in PointIds |-> segment_clear_payload(segments.payload[id])]),
                   points)

\* some points stored with some payload
InitPayload ==
    /\ \E stored \in SUBSET PointIds, payload \in Payloads :
          coll = [stored |-> stored,
                  payload |-> [id \in PointIds |-> IF id \in stored THEN payload
                                                   ELSE EmptyPayload]]
    /\ last = NoLast
    /\ proto = NoProto
    /\ upd = <<>>
    /\ cbLog = <<>>

PayloadOp(op, points, res) ==
    /\ coll' = res.segments
    /\ last' = [op |-> op, points |-> points, before |-> coll.payload, ret |-> res.ret]
    /\ UNCHANGED <<proto, upd, cbLog>>

SetPayload(payload, points) ==
    /\ payload # EmptyPayload
    /\ PayloadOp("set_payload", points, set_payload(coll, payload, points))

DeletePayload(points, keys) ==
    /\ keys # {}
    /\ PayloadOp("delete_payload", points, delete_payload(coll, points, keys))

ClearPayload(points) ==
    PayloadOp("clear_payload", points, clear_payload(coll, points))

NextPayload ==
    \E points \in Requests :
        \/ \E payload \in Payloads : SetPayload(payload, points)
        \/ \E keys \in SUBSET PayloadKeys : DeletePayload(points, keys)
        \/ ClearPayload(points)

SpecPayload == InitPayload /\ [][NextPayload]_vars

(***************************************************************************)
(* segments_updater: sync_points and upsert_points.                        *)
(***************************************************************************)
MaxSyncId == 3
MaxVector == 2
RangeBound == 2

SyncIds == 1..MaxSyncId
Vectors == 1..MaxVector
OneKey == [k \in PayloadKeys |-> IF k = "k1" THEN 1 ELSE 0]

\* the payload of a PointStruct: None, or Some of a payload
PointPayloads == {{}, Some(EmptyPayload), Some(OneKey)}
PointStructs == [vector : Vectors, payload : PointPayloads]

\* the points of a sync operation, by id
SyncPoints == UNION {[ids -> PointStructs] : ids \in SUBSET SyncIds}

\* the ends of the range of a sync operation
RangeEnds == {{}, Some(RangeBound)}

\* segments that hold no point
NoSegments ==
    [stored |-> {}, vector |-> [id \in SyncIds |-> 0],
     payload |-> [id \in SyncIds |-> EmptyPayload], merges |-> FALSE]

\* an id lies between from_id and to_id
in_range(id, from_id, to_id) ==
    /\ IF from_id = {} THEN TRUE ELSE id >= Unwrap(from_id)
    /\ IF to_id = {} THEN TRUE ELSE id <= Unwrap(to_id)

\* SegmentEntry::read_range over all the segments: the stored ids from from_id to to_id
read_range(segments, from_id, to_id) ==
    {id \in segments.stored : in_range(id, from_id, to_id)}

\* delete_points: the ids are deleted from the segments that hold them
delete_points(segments, ids) ==
    [segments |-> [segments EXCEPT
                      !.stored = @ \ ids,
                      !.vector = [id \in SyncIds |-> IF id \in ids THEN 0 ELSE @[id]],
                      !.payload = [id \in SyncIds |-> IF id \in ids THEN EmptyPayload ELSE @[id]]],
     ret |-> Cardinality(ids \cap segments.stored)]

\* SegmentEntry::set_payload as upsert_with_payload calls it: the segment merges the keys
\* into the payload it holds or replaces that payload
upsert_set_payload(segments, old, full_payload) ==
    IF segments.merges THEN segment_set_payload(old, full_payload) ELSE full_payload

\* upsert_with_payload: the vectors are written, and the payload when the point has one
upsert_with_payload(segments, id, point) ==
    [vector |-> point.vector,
     payload |-> IF point.payload # {}
                 THEN upsert_set_payload(segments, segments.payload[id], Unwrap(point.payload))
                 ELSE segments.payload[id],
     res |-> id \in segments.stored]

\* upsert_points: the points found in the segments are updated, the others are inserted
\* into an appendable segment; the number of points replaced is returned
upsert_points(segments, points) ==
    LET ids == DOMAIN points
        updated_points == ids \cap segments.stored
        new_point_ids == ids \ updated_points
        written == [id \in ids |-> upsert_with_payload(segments, id, points[id])]
    IN [segments |-> [segments EXCEPT
                         !.stored = @ \cup ids,
                         !.vector = [id \in SyncIds |->
                                        IF id \in ids THEN written[id].vector ELSE @[id]],
                         !.payload = [id \in SyncIds |->
                                         IF id \in ids THEN written[id].payload ELSE @[id]]],
        ret |-> Cardinality(updated_points) +
                Cardinality({id \in new_point_ids : written[id].res})]

\* the stored point differs from the point of the sync operation
differs(segments, id, point) ==
    \/ point.vector # segments.vector[id]
    \/ IF point.payload # {}
       THEN Unwrap(point.payload) # segments.payload[id]
       ELSE EmptyPayload # segments.payload[id]

\* sync_points: the stored points of the range are made those of the operation
sync_points(segments, from_id, to_id, points) ==
    LET sync_ids == DOMAIN points
        stored_point_ids == read_range(segments, from_id, to_id)
        points_to_remove == stored_point_ids \ sync_ids
        removed == delete_points(segments, points_to_remove)
        existing_point_ids == stored_point_ids \cap sync_ids
        changed == {id \in existing_point_ids : differs(removed.segments, id, points[id])}
        num_updated == Cardinality(changed)
        new == sync_ids \ stored_point_ids
        num_new == Cardinality(new)
        points_to_update == [id \in changed \cup new |-> points[id]]
        upserted == upsert_points(removed.segments, points_to_update)
    IN [segments |-> upserted.segments,
        ret |-> Ok(<<removed.ret, num_new, num_updated>>)]

InitSync ==
    /\ \E merges \in BOOLEAN : coll = [NoSegments EXCEPT !.merges = merges]
    /\ last = NoLast
    /\ proto = NoProto
    /\ upd = <<>>
    /\ cbLog = <<>>

\* a sync operation whose points are all inside its range
SyncPointsCall(from_id, to_id, points) ==
    /\ last = NoLast
    /\ \A id \in DOMAIN points : in_range(id, from_id, to_id)
    /\ LET res == sync_points(coll, from_id, to_id, points)
       IN /\ coll' = res.segments
          /\ last' = [op |-> "sync_points", from_id |-> from_id, to_id |-> to_id,
                      points |-> points, before |-> coll, again |-> FALSE, ret |-> res.ret]
    /\ UNCHANGED <<proto, upd, cbLog>>

\* the same sync operation once more
SyncPointsAgain ==
    /\ last.op = "sync_points"
    /\ ~last.again
    /\ LET res == sync_points(coll, last.from_id, last.to_id, last.points)
       IN /\ coll' = res.segments
          /\ last' = [last EXCEPT !.before = coll, !.again = TRUE, !.ret = res.ret]
    /\ UNCHANGED <<proto, upd, cbLog>>

\* the caller has its answer
SyncPointsReturn ==
    /\ last.op = "sync_points"
    /\ last' = NoLast
    /\ UNCHANGED <<coll, proto, upd, cbLog>>

NextSync ==
    \/ \E from_id \in RangeEnds, to_id \in RangeEnds, points \in SyncPoints :
           SyncPointsCall(from_id, to_id, points)
    \/ SyncPointsAgain
    \/ SyncPointsReturn

SpecSync == InitSync /\ [][NextSync]_vars

(***************************************************************************)
(* Collection::initiate_temporary_shard called by concurrent callers: the  *)
(* shard holder's lock is dropped between the removal of the old temporary *)
(* shard and the registration of the new one.                              *)
(***************************************************************************)
MaxTemporaryShardId == 1

TemporaryShardIds == 0..MaxTemporaryShardId

\* a caller that is in no call
NoCall == [pc |-> "idle", shard_id |-> 0, existing |-> {}]

\* ShardHolder::remove_temporary_shard
remove_temporary_shard(temporary, shard_id) ==
    [temporary |-> [temporary EXCEPT ![shard_id] = {}], existing |-> temporary[shard_id]]

\* ShardHolder::add_temporary_shard: the map entry of shard_id is overwritten
add_temporary_shard(temporary, shard_id, shard) ==
    [temporary |-> [temporary EXCEPT ![shard_id] = {shard}],
     replaced |-> temporary[shard_id]]

\* no temporary shard, no directory; every caller idle
InitTemporary ==
    /\ coll = [temporary |-> [s \in TemporaryShardIds |-> {}],
               dir |-> [s \in TemporaryShardIds |-> {}]]
    /\ upd = [c \in Callers |-> NoCall]
    /\ last = [op |-> "none", replaced |-> {}, by |-> 0]
    /\ proto = NoProto
    /\ cbLog = <<>>

\* under the write lock: the registered temporary shard is taken out of the holder
TemporaryRemove(c, shard_id) ==
    /\ upd[c].pc = "idle"
    /\ LET res == remove_temporary_shard(coll.temporary, shard_id)
       IN /\ coll' = [coll EXCEPT !.temporary = res.temporary]
          /\ upd' = [upd EXCEPT ![c] = [pc |-> "removed", shard_id |-> shard_id,
                                        existing |-> res.existing]]
    /\ last' = [op |-> "remove_temporary_shard", replaced |-> {}, by |-> c]
    /\ UNCHANGED <<proto, cbLog>>

\* without the lock: the old temporary shard is drained and its directory deleted;
\* remove_dir_all may fail, which ends the call
TemporaryDeleteOld(c, io_ok) ==
    /\ upd[c].pc = "removed"
    /\ upd[c].existing # {}
    /\ IF io_ok
       THEN /\ coll' = [coll EXCEPT !.dir[upd[c].shard_id] = {}]
            /\ upd' = [upd EXCEPT ![c].pc = "deleted", ![c].existing = {}]
       ELSE /\ coll' = coll
            /\ upd' = [upd EXCEPT ![c] = NoCall]
    /\ last' = [op |-> "remove_dir_all", replaced |-> {}, by |-> c]
    /\ UNCHANGED <<proto, cbLog>>

\* without the lock: the directory of the shard is created and the new temporary
\* shard is built in it; a failure ends the call
TemporaryBuild(c, io_ok) ==
    /\ \/ upd[c].pc = "deleted"
       \/ upd[c].pc = "removed" /\ upd[c].existing = {}
    /\ IF io_ok
       THEN /\ coll' = [coll EXCEPT !.dir[upd[c].shard_id] = @ \cup {c}]
            /\ upd' = [upd EXCEPT ![c].pc = "built"]
       ELSE /\ coll' = coll
            /\ upd' = [upd EXCEPT ![c] = NoCall]
    /\ last' = [op |-> "build_temp", replaced |-> {}, by |-> c]
    /\ UNCHANGED <<proto, cbLog>>

\* under the write lock again: the new temporary shard is registered
TemporaryRegister(c) ==
    /\ upd[c].pc = "built"
    /\ LET res == add_temporary_shard(coll.temporary, upd[c].shard_id, c)
       IN /\ coll' = [coll EXCEPT !.temporary = res.temporary]
          /\ last' = [op |-> "add_temporary_shard", replaced |-> res.replaced, by |-> c]
    /\ upd' = [upd EXCEPT ![c] = NoCall]
    /\ UNCHANGED <<proto, cbLog>>

NextTemporary ==
    \E c \in Callers :
        \/ \E shard_id \in TemporaryShardIds : TemporaryRemove(c, shard_id)
        \/ \E io_ok \in BOOLEAN : TemporaryDeleteOld(c, io_ok)
        \/ \E io_ok \in BOOLEAN : TemporaryBuild(c, io_ok)
        \/ TemporaryRegister(c)

SpecTemporary == InitTemporary /\ [][NextTemporary]_vars

(***************************************************************************)
(* The two locks of ConsensusState: persistent (parking_lot RwLock, a      *)
(* reader waits behind a waiting writer) and wal (Mutex), as the Storage   *)
(* adapter, apply_snapshot and the writers of the state take them.         *)
(***************************************************************************)
NumThreads == 3

Threads == 1..NumThreads

NoLocks == [readers |-> {}, writer |-> {}, waiting |-> {}, wal |-> {}, wal_empty |-> TRUE]

\* Storage::first_index / last_index: the WAL is locked; what follows depends on
\* whether it holds an entry
index_steps == <<"lock_wal_for_index">>

\* the rest of first_index / last_index once the WAL is locked: the guard of the match
\* scrutinee lives to the end of the match, so the persistent state is read under it
index_after_lock(wal_empty) ==
    IF wal_empty
    THEN <<"read_persistent", "unlock_persistent", "unlock_wal">>
    ELSE <<"unlock_wal">>

\* Storage::term: the persistent state is read-locked for the whole call; the WAL is
\* locked unless idx is the snapshot's index
term_steps(at_snapshot) ==
    <<"read_persistent">> \o
    (IF at_snapshot THEN <<>> ELSE <<"lock_wal", "unlock_wal">>) \o
    <<"unlock_persistent">>

\* Storage::entries: first_index, last_index, then the entries of the WAL
entries_steps == index_steps \o index_steps \o <<"lock_wal", "unlock_wal">>

\* apply_snapshot: first_index, wal.clear(), persistent.write().update_from_snapshot
apply_snapshot_steps ==
    index_steps \o <<"lock_wal_clear", "unlock_wal", "write_persistent", "unlock_persistent">>

\* append_entries
append_entries_steps == <<"lock_wal_append", "unlock_wal">>

\* a writer of the persistent state (insert_peer, entry_applied, save_if_dirty)
write_steps == <<"write_persistent", "unlock_persistent">>

Programs ==
    {index_steps, term_steps(TRUE), term_steps(FALSE), entries_steps,
     apply_snapshot_steps, append_entries_steps, write_steps}

WalLocks == {"lock_wal", "lock_wal_for_index", "lock_wal_clear", "lock_wal_append"}

\* the step a thread is at, "none" when it is in no call
StepOf(t) == IF upd[t] = <<>> THEN "none" ELSE Head(upd[t])

\* RwLock::read: not while a writer holds the lock or waits for it
can_read(locks) == locks.writer = {} /\ locks.waiting = {}

\* RwLock::write: not while a reader or a writer holds the lock
can_write(locks) == locks.writer = {} /\ locks.readers = {}

InitLocks ==
    /\ coll = NoLocks
    /\ upd = [t \in Threads |-> <<>>]
    /\ last = NoLast
    /\ proto = NoProto
    /\ cbLog = <<>>

\* a thread calls into the consensus state
LockCall(t, steps) ==
    /\ upd[t] = <<>>
    /\ upd' = [upd EXCEPT ![t] = steps]
    /\ UNCHANGED <<coll, last, proto, cbLog>>

LockWal(t) ==
    /\ StepOf(t) \in WalLocks
    /\ coll.wal = {}
    /\ coll' = [coll EXCEPT !.wal = {t},
                            !.wal_empty = IF StepOf(t) = "lock_wal_clear" THEN TRUE
                                          ELSE IF StepOf(t) = "lock_wal_append" THEN FALSE
                                          ELSE @]
    /\ upd' = [upd EXCEPT ![t] = IF StepOf(t) = "lock_wal_for_index"
                                 THEN index_after_lock(coll.wal_empty) \o Tail(@)
                                 ELSE Tail(@)]
    /\ UNCHANGED <<last, proto, cbLog>>

UnlockWal(t) ==
    /\ StepOf(t) = "unlock_wal"
    /\ coll' = [coll EXCEPT !.wal = {}]
    /\ upd' = [upd EXCEPT ![t] = Tail(@)]
    /\ UNCHANGED <<last, proto, cbLog>>

ReadPersistent(t) ==
    /\ StepOf(t) = "read_persistent"
    /\ can_read(coll)
    /\ coll' = [coll EXCEPT !.readers = @ \cup {t}]
    /\ upd' = [upd EXCEPT ![t] = Tail(@)]
    /\ UNCHANGED <<last, proto, cbLog>>

\* a writer that cannot have the lock queues for it
WaitPersistent(t) ==
    /\ StepOf(t) = "write_persistent"
    /\ ~can_write(coll)
    /\ t \notin coll.waiting
    /\ coll' = [coll EXCEPT !.waiting = @ \cup {t}]
    /\ UNCHANGED <<upd, last, proto, cbLog>>

WritePersistent(t) ==
    /\ StepOf(t) = "write_persistent"
    /\ can_write(coll)
    /\ coll' = [coll EXCEPT !.writer = {t}, !.waiting = @ \ {t}]
    /\ upd' = [upd EXCEPT ![t] = Tail(@)]
    /\ UNCHANGED <<last, proto, cbLog>>

UnlockPersistent(t) ==
    /\ StepOf(t) = "unlock_persistent"
    /\ coll' = [coll EXCEPT !.readers = @ \ {t}, !.writer = @ \ {t}]
    /\ upd' = [upd EXCEPT ![t] = Tail(@)]
    /\ UNCHANGED <<last, proto, cbLog>>

NextLocks ==
    \E t \in Threads :
        \/ \E steps \in Programs : LockCall(t, steps)
        \/ LockWal(t)
        \/ UnlockWal(t)
        \/ ReadPersistent(t)
        \/ WaitPersistent(t)
        \/ WritePersistent(t)
        \/ UnlockPersistent(t)

SpecLocks == InitLocks /\ [][NextLocks]_vars

(***************************************************************************)
(* The shard holder's lock (tokio RwLock) as handle_replica_changes and    *)
(* update_from_client hold it while they await a callback, and as          *)
(* start_shard_transfer and set_shard_replica_state take it.               *)
(***************************************************************************)
NoHolderLock == [readers |-> {}, writer |-> {}]

\* what a callback does on the collection it was given by
CallbackCalls == {"nothing", "start_shard_transfer", "set_shard_replica_state"}

\* the write lock can be had: nobody holds the lock
holder_can_write(lock) == lock.readers = {} /\ lock.writer = {}

\* the read lock can be had: no writer holds the lock
holder_can_read(lock) == lock.writer = {}

InitHolder ==
    /\ coll = NoHolderLock
    /\ upd = [c \in Threads |-> [pc |-> "idle", after |-> "idle"]]
    /\ last = NoLast
    /\ proto = NoProto
    /\ cbLog = <<>>

\* handle_replica_changes takes the write lock for the whole call
ReplicaChangesLock(c) ==
    /\ upd[c].pc = "idle"
    /\ holder_can_write(coll)
    /\ coll' = [coll EXCEPT !.writer = {c}]
    /\ upd' = [upd EXCEPT ![c].pc = "replica_changes"]
    /\ UNCHANGED <<last, proto, cbLog>>

\* a replica is added on this peer: request_shard_transfer awaits the callback, the
\* write lock still held
RequestShardTransfer(c, calls) ==
    /\ upd[c].pc = "replica_changes"
    /\ upd' = [upd EXCEPT ![c] = IF calls = "nothing"
                                 THEN [pc |-> "replica_changes_done", after |-> "idle"]
                                 ELSE [pc |-> calls, after |-> "replica_changes_done"]]
    /\ UNCHANGED <<coll, last, proto, cbLog>>

\* update_from_client takes the read lock for the updates of the shards
UpdateLock(c) ==
    /\ upd[c].pc = "idle"
    /\ holder_can_read(coll)
    /\ coll' = [coll EXCEPT !.readers = @ \cup {c}]
    /\ upd' = [upd EXCEPT ![c].pc = "shard_update"]
    /\ UNCHANGED <<last, proto, cbLog>>

\* the update of a replica fails: ReplicaSet::update awaits notify_peer_failure, the
\* read lock still held
NotifyPeerFailure(c, calls) ==
    /\ upd[c].pc = "shard_update"
    /\ upd' = [upd EXCEPT ![c] = IF calls = "nothing"
                                 THEN [pc |-> "shard_update_done", after |-> "idle"]
                                 ELSE [pc |-> calls, after |-> "shard_update_done"]]
    /\ UNCHANGED <<coll, last, proto, cbLog>>

\* start_shard_transfer or set_shard_replica_state called from outside any other call
DirectCall(c, calls) ==
    /\ upd[c].pc = "idle"
    /\ calls # "nothing"
    /\ upd' = [upd EXCEPT ![c] = [pc |-> calls, after |-> "idle"]]
    /\ UNCHANGED <<coll, last, proto, cbLog>>

\* start_shard_transfer / set_shard_replica_state: the write lock is taken, the shard
\* holder changed, the lock released
HolderWrite(c) ==
    /\ upd[c].pc \in {"start_shard_transfer", "set_shard_replica_state"}
    /\ holder_can_write(coll)
    /\ upd' = [upd EXCEPT ![c] = [pc |-> @.after, after |-> "idle"]]
    /\ UNCHANGED <<coll, last, proto, cbLog>>

\* the end of handle_replica_changes and of update_from_client's block: the guard drops
HolderUnlock(c) ==
    /\ upd[c].pc \in {"replica_changes_done", "shard_update_done"}
    /\ coll' = [coll EXCEPT !.readers = @ \ {c}, !.writer = @ \ {c}]
    /\ upd' = [upd EXCEPT ![c] = [pc |-> "idle", after |-> "idle"]]
    /\ UNCHANGED <<last, proto, cbLog>>

NextHolder ==
    \E c \in Threads :
        \/ ReplicaChangesLock(c)
        \/ \E calls \in CallbackCalls : RequestShardTransfer(c, calls)
        \/ UpdateLock(c)
        \/ \E calls \in CallbackCalls : NotifyPeerFailure(c, calls)
        \/ \E calls \in CallbackCalls : DirectCall(c, calls)
        \/ HolderWrite(c)
        \/ HolderUnlock(c)

SpecHolder == InitHolder /\ [][NextHolder]_vars

(***************************************************************************)
(* SpecProxify: the replica set of ThisPeer under proxify_local and        *)
(* remove_replica, with a disk that may fail to delete the local shard.    *)
(***************************************************************************)
\* proxify_local: self.local.take() empties the slot before the match; only a
\* Local shard is put back (wrapped in a ForwardProxy)
proxify_local(rs, remote_shard) ==
    LET taken == rs.local
        emptied == [rs EXCEPT !.local = "None"]
    IN IF taken = "Local"
       THEN [ok |-> TRUE, rs |-> [emptied EXCEPT !.local = "ForwardProxy"]]
       ELSE [ok |-> FALSE, rs |-> emptied]

\* remove_replica with the outcome of drop_and_delete_from_disk: the local shard
\* is taken out of the slot before it is deleted, `?` returns on a failed delete
remove_replica_on_disk(rs, this_peer_id, peer_id, drop_ok) ==
    IF peer_id = this_peer_id /\ rs.local # "None" /\ ~drop_ok
    THEN [ok |-> FALSE, rs |-> [rs EXCEPT !.local = "None"]]
    ELSE remove_replica(rs, this_peer_id, peer_id)

ProxifyIdle == last = NoLast

ProxifyReplicaSet(shard_id) ==
    /\ ProxifyIdle
    /\ get_shard(coll[ThisPeer], shard_id).kind = "ReplicaSet"

ProxifyResult(op, shard_id, peer_id, res) ==
    /\ coll' = [coll EXCEPT ![ThisPeer].shards[shard_id] = res.rs]
    /\ last' = [op |-> op, peer |-> peer_id, ok |-> res.ok,
                before |-> coll[ThisPeer].shards[shard_id], shard_id |-> shard_id]
    /\ UNCHANGED <<proto, upd, cbLog>>

ProxifyLocal(shard_id, to) ==
    /\ ProxifyReplicaSet(shard_id)
    /\ ProxifyResult("proxify_local", shard_id, to,
                     proxify_local(coll[ThisPeer].shards[shard_id], RemoteShard(to)))

RemoveReplica(shard_id, peer_id, drop_ok) ==
    /\ ProxifyReplicaSet(shard_id)
    /\ ProxifyResult("remove_replica", shard_id, peer_id,
                     remove_replica_on_disk(coll[ThisPeer].shards[shard_id], ThisPeer,
                                            peer_id, drop_ok))

ProxifyAddReplica(shard_id, peer_id) ==
    ProxifyIdle /\ HandleReplicaAdd(shard_id, peer_id, CHOOSE f \in Peers : f # ThisPeer)

ProxifySetActive(shard_id, peer_id, active) ==
    ProxifyIdle /\ SetShardReplicaState(shard_id, peer_id, active)

ProxifyReturn ==
    /\ last.op \in {"proxify_local", "remove_replica"}
    /\ last' = NoLast
    /\ UNCHANGED <<coll, proto, upd, cbLog>>

NextProxify ==
    \/ \E s \in ShardIds, q \in Peers \ {ThisPeer} : ProxifyLocal(s, q)
    \/ \E s \in ShardIds, q \in Peers, drop_ok \in BOOLEAN : RemoveReplica(s, q, drop_ok)
    \/ \E s \in ShardIds, q \in Peers : ProxifyAddReplica(s, q)
    \/ \E s \in ShardIds, q \in Peers, b \in BOOLEAN : ProxifySetActive(s, q, b)
    \/ ProxifyReturn

SpecProxify == InitReplica /\ [][NextProxify]_vars

(***************************************************************************)
(* SpecMapIndex: OnDiskMapIndex (index/field_index/on_disk_map_index.rs)   *)
(* under add_many and remove_point.  Point offsets start at 0, so point    *)
(* idx sits at position idx + 1 of point_to_values.  The store is the set  *)
(* of records of the column family; it answers without error.              *)
(***************************************************************************)
MaxOffset == 2          \* point offsets 0..MaxOffset
MaxN == 2               \* indexed values 1..MaxN
MaxValues == 2          \* longest value list of one add_many
MaxTotalPoints == 3     \* add_many is called while total_points is below this

Offsets == 0..MaxOffset
IndexedValues == 1..MaxN
ValueLists == UNION {[1..n -> IndexedValues] : n \in 0..MaxValues}

\* OnDiskMapIndex::new
NewMapIndex ==
    [map |-> EmptyMap, point_to_values |-> <<>>, total_points |-> 0, store |-> {}]

\* format!("{}/{}", value, idx)
encode_db_record(value, idx) == <<value, idx>>

\* self.map.entry(value).or_default().push(idx)
entry_push(map, value, idx) ==
    IF value \in DOMAIN map
    THEN [map EXCEPT ![value] = Append(@, idx)]
    ELSE PutKey(map, value, <<idx>>)

\* the loop of add_many_to_map over the new value list
RECURSIVE add_values(_, _, _)
add_values(index, idx, values) ==
    IF values = <<>>
    THEN index
    ELSE add_values([index EXCEPT !.map = entry_push(@, Head(values), idx),
                                  !.store = @ \cup {encode_db_record(Head(values), idx)}],
                    idx, Tail(values))

\* Vec::resize(idx + 1, Vec::new()) when the vector is too short
resize(point_to_values, new_len) ==
    IF Len(point_to_values) < new_len
    THEN point_to_values \o [i \in 1..(new_len - Len(point_to_values)) |-> <<>>]
    ELSE point_to_values

\* add_many_to_map: the value list of the point is overwritten, idx is pushed under
\* every new value, total_points grows by one for a non-empty list
add_many_to_map(index, idx, values) ==
    LET resized == resize(index.point_to_values, idx + 1)
        assigned == [index EXCEPT !.point_to_values = [resized EXCEPT ![idx + 1] = values]]
        pushed == add_values(assigned, idx, values)
    IN [pushed EXCEPT !.total_points = IF values # <<>> THEN @ + 1 ELSE @]

\* the loop of remove_point: self.map.remove(value) drops the whole key
RECURSIVE remove_values(_, _, _)
remove_values(index, idx, removed_values) ==
    IF removed_values = <<>>
    THEN index
    ELSE remove_values([index EXCEPT !.map = RemoveKey(@, Head(removed_values)),
                                     !.store = @ \ {encode_db_record(Head(removed_values), idx)}],
                       idx, Tail(removed_values))

\* remove_point: a point beyond the vector is ignored; otherwise its value list is
\* taken and every value of it is removed from the map and from the store
remove_point(index, idx) ==
    IF Len(index.point_to_values) <= idx
    THEN index
    ELSE remove_values([index EXCEPT !.point_to_values[idx + 1] = <<>>], idx,
                       index.point_to_values[idx + 1])

\* PayloadFieldIndex::count_indexed_points
count_indexed_points(index) == index.total_points

InitMapIndex ==
    /\ coll = NewMapIndex
    /\ last = NoLast
    /\ proto = NoProto
    /\ upd = NoUpdate
    /\ cbLog = <<>>

\* ValueIndexer::add_many
AddMany(id, values) ==
    /\ coll.total_points < MaxTotalPoints
    /\ coll' = add_many_to_map(coll, id, values)
    /\ UNCHANGED <<last, proto, upd, cbLog>>

\* ValueIndexer::remove_point
RemovePoint(id) ==
    /\ coll' = remove_point(coll, id)
    /\ UNCHANGED <<last, proto, upd, cbLog>>

NextMapIndex ==
    \/ \E id \in Offsets, values \in ValueLists : AddMany(id, values)
    \/ \E id \in Offsets : RemovePoint(id)

SpecMapIndex == InitMapIndex /\ [][NextMapIndex]_vars

(***************************************************************************)
(* Transfer claims                                                         *)
(***************************************************************************)
\* C1: for a transfer record t registered on a peer, finish_shard_transfer(t) called
\* twice in a row with nothing in between returns true the first time and false the
\* second time, for sync and non-sync transfers alike.
C1_FinishTwiceTrueThenFalse ==
    (last.op = "finish" /\ last.reg /\ last.ret # "err")
    => /\ last.ret = "true"
       /\ finish_shard_transfer(coll[last.peer], last.t).ret = "false"

\* C2: finish_shard_transfer(t) returns true if and only if one of its steps changed
\* this peer's state (record removed, task stopped, replica activated, proxy promoted,
\* temporary shard promoted, remote rerouted).
C2_FinishTrueIffChanged ==
    (last.op = "finish" /\ last.ret # "err")
    => ((last.ret = "true") <=> last.changed)

\* C3: after a non-sync transfer t from A to B was started, ran to completion and
\* finish_shard_transfer(t) returned on every peer: t is registered on no peer, A's slot
\* is a Remote pointing at B, B's temporary shard was promoted to the Local of the slot
\* and no temporary remains, and every third party's Remote points at B.
C3_FinishedEverywhere ==
    (\A p \in Peers : proto.phase[p] = "finished")
    => LET t == ClusterTransfer
       IN /\ \A p \in Peers : t \notin coll[p].transfers
          /\ coll[t.from].shards[t.shard_id] = RemoteShard(t.to)
          /\ coll[t.to].shards[t.shard_id] = LocalShard
          /\ \A p \in Peers : t.shard_id \notin coll[p].temp
          /\ \A p \in Peers \ {t.from, t.to} :
                coll[p].shards[t.shard_id] = RemoteShard(t.to)

C3_Witness ==
    /\ \A p \in Peers : proto.phase[p] = "finished"
    /\ last.op = "finish"
    /\ last.ret = "true"

\* C4: after abort_shard_transfer(t) returns, in whatever stage the transfer was: t is
\* not registered, the pool holds no task for t, the slot is not a ForwardProxy, no
\* temporary shard exists for t.shard_id; and the call returns true iff any of these
\* changed.
C4_AbortCleansAndReports ==
    last.op = "abort"
    => /\ last.t \notin coll[last.peer].transfers
       /\ TransferKey(last.t) \notin DOMAIN coll[last.peer].tasks
       /\ get_shard(coll[last.peer], last.t.shard_id).kind # "ForwardProxy"
       /\ last.t.shard_id \notin coll[last.peer].temp
       /\ (last.ret = "true") <=> last.changed

C6_SendShardFindsNoTask ==
    (last.op = "start" /\ last.spawned) => last.task_result = "NotFound"

(***************************************************************************)
(* Replica write claims                                                    *)
(***************************************************************************)
\* the replica set a write in flight is running on
UpdSet == coll[ThisPeer].shards[upd.shard_id]

\* the replicas a write has to go to, read off the replica set itself
ActiveReplicas ==
    {q \in Peers :
        /\ q \in DOMAIN UpdSet.replica_state
        /\ UpdSet.replica_state[q]
        /\ \/ q = ThisPeer /\ UpdSet.local # "None"
           \/ q # ThisPeer /\ q \in SeqToSet(UpdSet.remotes)}

\* C7: ReplicaSet::update returns Ok whenever every targeted replica succeeds (targets:
\* the local replica if active plus every active remote, at least one target), and Err
\* whenever a targeted replica fails; Ok implies that all active replicas acknowledged.
C7_OkIffAllTargetsSucceed ==
    (upd.phase = "done" /\ ActiveReplicas # {})
    => /\ (\A q \in ActiveReplicas : upd.st[q] = "ok") => upd.ret = "Ok"
       /\ (\E q \in ActiveReplicas : upd.st[q] = "err") => upd.ret # "Ok"
       /\ upd.ret = "Ok" => \A q \in ActiveReplicas : upd.st[q] = "ok"

C9_NoActiveReplicaFails ==
    (upd.phase # "idle" /\ ActiveReplicas = {})
    => /\ upd.phase = "done"
       /\ upd.ret = "ErrNoActive"
       /\ \A q \in Peers : upd.st[q] = "none"
       /\ cbLog = <<>>

C9_Witness ==
    /\ upd.phase = "done"
    /\ upd.ret = "ErrNoActive"
    /\ UpdSet.local # "None"
    /\ UpdSet.remotes # <<>>

\* C10 as stated: the callback is invoked exactly once per write in which a replica's
\* write failed, with the id of a remote replica whose write failed and the set's shard
\* id, never with the local peer's id; it is not invoked when all writes succeed.
C10_CallbackOncePerFailedWrite ==
    upd.phase = "done"
    => /\ (\A q \in Targets(upd) : upd.st[q] = "ok") => cbLog = <<>>
       /\ (\E q \in Targets(upd) : upd.st[q] = "err") =>
            /\ Len(cbLog) = 1
            /\ cbLog[1][2] = upd.shard_id
            /\ cbLog[1][1] \in SeqToSet(upd.remotes)
            /\ cbLog[1][1] # ThisPeer
            /\ upd.st[cbLog[1][1]] = "err"

\* C10 amended: the callback is invoked exactly once per write in which a targeted
\* replica's write failed, with the id of a targeted replica whose write failed (a
\* remote's, or this peer's own when the local write failed) and the set's shard id;
\* it is not invoked before the write ends, when the write returns Ok, or when it
\* fails because no replica is active or no remote replied.
C10_CallbackOncePerFailedReplica ==
    /\ upd.phase # "done" => cbLog = <<>>
    /\ upd.phase = "done"
       => /\ Len(cbLog) <= 1
          /\ (Len(cbLog) = 1) <=> (\E q \in Targets(upd) : upd.st[q] = "err")
          /\ (Len(cbLog) = 1) <=> (upd.ret = "ErrReplica")
          /\ Len(cbLog) = 1 =>
               /\ cbLog[1][2] = upd.shard_id
               /\ cbLog[1][1] \in Targets(upd)
               /\ upd.st[cbLog[1][1]] = "err"

C10_Witness ==
    /\ upd.phase = "done"
    /\ Len(cbLog) = 1
    /\ cbLog[1][1] = ThisPeer
    /\ \E q \in SeqToSet(upd.remotes) : upd.st[q] = "ok"

\* C11: when one active remote replica fails during a write, every other targeted
\* replica (the active local replica and every other active remote) still applies the
\* write: the first failure never leaves a healthy target without the write.
C11_FailureCancelsNoHealthyWrite ==
    (/\ upd.phase = "done"
     /\ \E q \in SeqToSet(upd.remotes) :
           /\ upd.st[q] = "err"
           /\ \A o \in Targets(upd) \ {q} : upd.st[o] # "err")
    => \A q \in Targets(upd) : upd.st[q] \in {"ok", "err"}

(***************************************************************************)
(* Replica read claims                                                     *)
(***************************************************************************)
\* the active remotes of the set the read runs on, in the order of the remotes vector
ActiveRemotes ==
    SelectSeq(UpdSet.remotes,
              LAMBDA q : q \in DOMAIN UpdSet.replica_state /\ UpdSet.replica_state[q])

LocalReadable ==
    /\ UpdSet.local # "None"
    /\ ThisPeer \in DOMAIN UpdSet.replica_state
    /\ UpdSet.replica_state[ThisPeer]

\* the first remote tier: the first min(active remotes, read_remote_replicas) of them
FirstTier ==
    {ActiveRemotes[i] : i \in 1..Min(Len(ActiveRemotes), READ_REMOTE_REPLICAS)}

\* C12: execute_read_operation contacts replicas strictly in tiers: the local replica
\* first if present and active; remotes only if the local is absent, inactive or
\* failed; the first remote tier has exactly min(active remotes, read_remote_replicas)
\* members; the remaining active remotes are contacted only after every member of the
\* first tier failed; inactive remotes are never contacted; the first success is returned.
C12_ReadsGoTierByTier ==
    upd.phase # "idle"
    => LET contacted == SeqToSet(upd.contacted)
       IN /\ contacted \subseteq
                SeqToSet(ActiveRemotes) \cup (IF LocalReadable THEN {ThisPeer} ELSE {})
          /\ (LocalReadable /\ upd.contacted # <<>>) => upd.contacted[1] = ThisPeer
          /\ (contacted \ {ThisPeer} # {}) => (~LocalReadable \/ upd.st[ThisPeer] = "err")
          /\ Cardinality(FirstTier) = Min(Len(ActiveRemotes), READ_REMOTE_REPLICAS)
          /\ (contacted \ ({ThisPeer} \cup FirstTier) # {})
                => \A q \in FirstTier : upd.st[q] = "err"
          /\ \A q \in ReadPeers : upd.st[q] = "ok" => upd.ret = [kind |-> "Ok", peer |-> q]
          /\ upd.ret.kind = "Ok" => upd.st[upd.ret.peer] = "ok"

C12_Witness ==
    /\ upd.phase = "done"
    /\ upd.ret.kind = "Ok"
    /\ upd.ret.peer \notin FirstTier \cup {ThisPeer}
    /\ Len(upd.contacted) = NumReadPeers

\* C13 as stated: when every replica contacted by a read fails, the error returned is
\* the first error in the order the failures occurred, the local replica's error when
\* the local was tried.
C13_FirstErrorReturned ==
    (upd.phase = "done" /\ upd.ret.kind # "Ok" /\ upd.failed # <<>>)
    => upd.ret = [kind |-> "Err", peer |-> upd.failed[1]]

\* C13 amended: when every replica contacted by a read fails, the error returned is
\* that of the member of the first remote tier that failed last; the errors of the
\* local replica and of the remaining remotes are dropped, and when no remote is
\* active the "no active replica" error is returned even if the local read failed.
C13_LastFirstTierErrorReturned ==
    (upd.phase = "done" /\ upd.ret.kind # "Ok")
    => LET tierFailures == SelectSeq(upd.failed, LAMBDA q : q \in FirstTier)
       IN /\ \A q \in SeqToSet(upd.contacted) : upd.st[q] = "err"
          /\ ActiveRemotes = <<>> => upd.ret.kind = "ErrNoActive"
          /\ ActiveRemotes # <<>> =>
                /\ Len(tierFailures) = Cardinality(FirstTier)
                /\ upd.ret = [kind |-> "Err", peer |-> tierFailures[Len(tierFailures)]]

C13_Witness ==
    /\ upd.phase = "done"
    /\ upd.ret.kind = "Err"
    /\ Len(upd.failed) = NumReadPeers
    /\ upd.failed[1] = ThisPeer
    /\ upd.ret.peer = upd.failed[3]

\* the replicas a replica set holds: this peer when the local replica is present, and
\* the peer of every remote shard
ReplicasHeld(rs) ==
    (IF rs.local # "None" THEN {ThisPeer} ELSE {}) \cup SeqToSet(rs.remotes)

\* C14: after build and any calls of add_inactive_replica_state, set_active,
\* remove_replica, apply_state and handle_replica_changes, the keys of the
\* replica-state map are exactly the replicas the set holds
C14_StateKeysAreReplicasHeld ==
    \A s \in ShardIds :
        LET rs == coll[ThisPeer].shards[s]
        IN rs.kind = "ReplicaSet" => DOMAIN rs.replica_state = ReplicasHeld(rs)

\* C15: whenever handle_replica_changes returns Ok, every slot that is still a
\* replica set holds at least two replicas
C15_ChangedSetsKeepTwoReplicas ==
    [][(\E s \in ShardIds, q \in Peers : ApplyAddReplica(s, q) \/ ApplyRemoveReplica(s, q))
        => \A s \in ShardIds :
              coll'[ThisPeer].shards[s].kind = "ReplicaSet"
                  => Len(peer_ids(coll'[ThisPeer].shards[s], ThisPeer)) >= 2]_vars

\* C16: a call of apply_state that returns an error leaves the replica-state map in
\* memory and the persisted map as they were before the call
C16_FailedApplyChangesNothing ==
    (last.op = "apply_state" /\ last.ret = "err") => ~last.changed

\* C17: after apply_state returns Ok for a non-empty target the set holds at least
\* one replica, the map is the target, and the local shard was dropped exactly when
\* this peer was in the map before and is absent from the target
C17_AppliedTargetHolds ==
    \A s \in ShardIds :
        (last.op = "apply_state" /\ last.ret = "ok" /\ ~last.empty)
            => /\ Len(peer_ids(coll[ThisPeer].shards[s], ThisPeer)) >= 1
               /\ last.applied
               /\ last.dropped <=> last.must_drop

\* C18: apply_state with a target that names a peer absent from the current map
\* returns an error value
C18_NewPeerIsAnError ==
    (last.op = "apply_state" /\ last.new_peer) => last.ret = "err"

\* the results after which the queue moves on: applied, or rejected with a user error
Advancing == {"Ok(true)", "Ok(false)", "UserError"}

\* C19: apply_entries takes the committed entries in index order; the cursor moves
\* past an entry exactly when it was applied or rejected with a user error (an entry
\* whose cursor save failed aside); after any other result the cursor stays on the
\* entry and nothing later is applied in the call
C19_CursorFollowsResults ==
    last.op = "apply_entries" =>
        \A k \in 1..Len(last.log) :
            /\ last.log[k].index = last.from + k - 1
            /\ ~last.log[k].save_failed =>
                   (last.to > last.log[k].index <=> last.log[k].result \in Advancing)
            /\ last.log[k].result \notin Advancing =>
                   (k = Len(last.log) /\ last.to = last.log[k].index)

\* C20: an entry applied while a waiter is registered under its operation hands the
\* result to that waiter and takes it out of the registry (a configuration change
\* that failed and will be retried aside); a caller whose own entry is applied
\* before its deadline returns the result of that application
C20_WaiterGetsOutcome ==
    /\ last.op = "apply_entries" =>
           \A k \in 1..Len(last.log) :
               LET a == last.log[k]
               IN (a.waiter # NoCaller
                      /\ ~(a.type = "EntryConfChangeV2" /\ a.result = "ServiceError"))
                      => /\ a.delivered = a.result
                         /\ coll.on_consensus_op_apply[a.op] # a.waiter
    /\ \A c \in Callers : upd[c].applied # "none" => upd[c].ret = upd[c].applied

MaxSizes == {{}} \cup {{n} : n \in 0..MaxSize}

\* C23: for entries appended with consecutive indexes from 1 and no snapshot, the
\* adapter answers first_index, last_index, term(idx) and entries(low, high,
\* max_size) as raft's in-memory storage does, and entries returns at least one
\* entry when low < high
C23_AgreesWithMemStorage ==
    coll.pristine =>
        /\ first_index(coll) = mem_first_index(coll.mem)
        /\ last_index(coll) = mem_last_index(coll.mem)
        /\ \A idx \in Indexes : term(coll, idx) = mem_term(coll.mem, idx)
        /\ \A low \in Indexes, high \in Indexes, max_size \in MaxSizes :
               low < high =>
                   /\ entries(coll, low, high, max_size) = mem_entries(coll.mem, low, high, max_size)
                   /\ entries(coll, low, high, max_size).ok =>
                          Len(entries(coll, low, high, max_size).val) >= 1

C23_Witness ==
    /\ coll.pristine
    /\ Len(coll.wal) = MaxIndex
    /\ entries(coll, 1, MaxIndex + 1, {0}) = Ok(<<Head(coll.wal)>>)
    /\ entries(coll, 0, 1, {}) = Err("Compacted")
    /\ term(coll, MaxIndex + 1) = Err("Unavailable")
    /\ coll.wal[MaxIndex].term > Head(coll.wal).term

\* C24: apply_snapshot refuses a snapshot below first_index and then changes nothing;
\* after Ok the catalogue holds the snapshot's states, the WAL is empty, first_index
\* is snapshot.index + 1, last_index is snapshot.index and the term at snapshot.index
\* is the snapshot's; after a failure the catalogue is not updated while the WAL or
\* the marker are still the old ones
C24_SnapshotInstalledAsAWhole ==
    last.op = "apply_snapshot" =>
        /\ last.snapshot.index < last.first_index =>
               /\ ~last.ok
               /\ coll.wal = last.wal
               /\ coll.snapshot = last.marker
               /\ coll.catalogue = last.catalogue
        /\ last.ok =>
               /\ coll.catalogue = last.snapshot
               /\ coll.wal = <<>>
               /\ first_index(coll) = last.snapshot.index + 1
               /\ last_index(coll) = last.snapshot.index
               /\ term(coll, last.snapshot.index) = Ok(last.snapshot.term)
        /\ (~last.ok /\ coll.catalogue # last.catalogue) =>
               (coll.wal = <<>> /\ coll.snapshot = last.snapshot)

\* the configuration changes an apply_entries call applied
ConfChangesApplied ==
    {last.log[k].op : k \in {j \in 1..Len(last.log) :
                                /\ last.log[j].type = "EntryConfChangeV2"
                                /\ last.log[j].result = "Ok(true)"}}

\* C25: apply_entries returns true exactly when it applied a configuration change
\* that removes this peer; a removal of another peer takes only that peer out of the
\* known peers
C25_StopsOnOwnRemovalOnly ==
    last.op = "apply_entries" =>
        /\ last.ret <=> [kind |-> "RemovePeer", arg |-> ThisPeer] \in ConfChangesApplied
        /\ coll.peers =
               (last.peers \ {o.arg : o \in {x \in ConfChangesApplied : x.kind = "RemovePeer"}})
               \cup {o.arg : o \in {x \in ConfChangesApplied : x.kind = "AddPeer"}}

C25_Witness ==
    /\ last.op = "apply_entries"
    /\ ~last.ret
    /\ [kind |-> "RemovePeer", arg |-> ThisPeer + 2] \in ConfChangesApplied
    /\ coll.peers = {ThisPeer}
    /\ Len(last.log) >= 2

\* the shards whose update failed
Failed == {i \in 1..Len(upd) : ~upd[i].ok}

\* C26: update_from_client over n shards returns an Ok result when all n updates
\* succeed, the first error unchanged when all n fail, and otherwise
\* InconsistentShardFailure with the number of shards, the number of failed shards
\* and the first failure
C26_PartialFailureIsReported ==
    last.op = "update_from_client" =>
        /\ Failed = {} => (last.ret.ok /\ \E i \in 1..Len(upd) : last.ret = upd[i])
        /\ Failed = 1..Len(upd) =>
               last.ret = upd[CHOOSE i \in Failed : \A j \in Failed : i <= j]
        /\ (Failed # {} /\ Failed # 1..Len(upd)) =>
               last.ret = Err([kind |-> "InconsistentShardFailure",
                               shards_total |-> Len(upd),
                               shards_failed |-> Cardinality(Failed),
                               first_err |-> upd[CHOOSE i \in Failed : \A j \in Failed : i <= j].val])

C26_Witness ==
    /\ last.op = "update_from_client"
    /\ Len(upd) = MaxShards
    /\ Cardinality(Failed) = 2
    /\ upd[2].val # upd[3].val
    /\ upd[1].ok
    /\ cbLog = <<3, 2, 1>>
    /\ last.ret.val.first_err = upd[2].val

\* all the ids of the collection
StoredIds == UNION {coll.shards[sh] : sh \in Shards}

\* the ids a scroll from an offset has to give, in order
FromOffset(offset) ==
    Ascending({i \in StoredIds : offset = {} \/ i >= Unwrap(offset)})

\* C27: for any limit >= 1 scroll_by returns the limit smallest ids from offset on in
\* ascending order and the next one as next_page_offset (None when there is none);
\* limit = 0 is a BadRequest; the pages followed from offset None hold every point
\* exactly once
C27_ScrollPagesInIdOrder ==
    last.op = "scroll_by" =>
        /\ upd.limit = 0 => last.ret = Err("BadRequest")
        /\ upd.limit >= 1 =>
               /\ last.ret.ok
               /\ last.ret.val.points = take(FromOffset(last.offset), upd.limit)
               /\ last.ret.val.next_page_offset =
                      IF Len(FromOffset(last.offset)) > upd.limit
                      THEN Some(FromOffset(last.offset)[upd.limit + 1])
                      ELSE {}
               /\ (upd.from_start /\ upd.finished) => upd.visited = Ascending(StoredIds)

\* the ids held by the target shards of the request
TargetIds == UNION {coll.shards[sh] : sh \in (IF upd.shard_selection = {} THEN Shards ELSE upd.shard_selection)}

\* the limit + offset best points of the target shards, best first
TopOfTargets == peek_top(Ascending(TargetIds), upd.limit + upd.offset, coll.order)

\* C28: _search_batch gives the top (limit + offset) points of the target shards in the
\* distance's order, without the first offset of them when shard_selection is None
\* (without all of them when there are fewer) and with all of them when it is Some; a
\* client gets at most limit points, the offset being taken off once along the chain
C28_OffsetAppliedOnce ==
    last.op = "search" =>
        /\ last.ret.ok
        /\ upd.shard_selection # {} => last.ret.val = TopOfTargets
        /\ upd.shard_selection = {} =>
               /\ last.ret.val = SubSeq(TopOfTargets, upd.offset + 1, Len(TopOfTargets))
               /\ Len(last.ret.val) <= upd.limit

PayloadOps == {"set_payload", "delete_payload", "clear_payload"}

\* the ids of the last request that no segment holds, in request order
MissedPoints == SelectSeq(last.points, LAMBDA p : p \notin coll.stored)

\* C29: a payload operation over a list with an id that no segment holds fails with
\* PointNotFound naming the first such id of the request, and the payload of every
\* point is what it was before the call
C29_FailsAsAWhole ==
    (last.op \in PayloadOps /\ MissedPoints # <<>>) =>
        /\ last.ret = Err([PointNotFound |-> Head(MissedPoints)])
        /\ coll.payload = last.before

\* the payload a point of a sync operation stands for
PayloadOf(point) == IF point.payload # {} THEN Unwrap(point.payload) ELSE EmptyPayload

\* the stored ids of the range of the last sync operation, before it and after it
StoredBefore == read_range(last.before, last.from_id, last.to_id)
StoredAfter == read_range(coll, last.from_id, last.to_id)

\* C30: after sync_points returns Ok the stored ids of the range are the ids of the
\* points and each stored point equals its sync point; the call returns the numbers of
\* (stored ids absent from the sync set, sync ids not stored before, ids in both whose
\* vectors or payload differed), and the same call once more returns (0, 0, 0)
C30_RangeEqualsSyncPoints ==
    (last.op = "sync_points" /\ last.ret.ok) =>
        /\ StoredAfter = DOMAIN last.points
        /\ \A id \in DOMAIN last.points :
               /\ coll.vector[id] = last.points[id].vector
               /\ coll.payload[id] = PayloadOf(last.points[id])
        /\ last.ret.val =
               <<Cardinality(StoredBefore \ DOMAIN last.points),
                 Cardinality(DOMAIN last.points \ StoredBefore),
                 Cardinality({id \in StoredBefore \cap DOMAIN last.points :
                                 \/ last.before.vector[id] # last.points[id].vector
                                 \/ last.before.payload[id] # PayloadOf(last.points[id])})>>
        /\ last.again => last.ret.val = <<0, 0, 0>>

\* C31: with initiate_temporary_shard called concurrently, no registration replaces a
\* temporary shard that is registered, and every registered temporary shard has its
\* directory
C31_OneTemporaryShard ==
    /\ last.op = "add_temporary_shard" => last.replaced = {}
    /\ \A s \in TemporaryShardIds :
           \A shard \in coll.temporary[s] : shard \in coll.dir[s]

\* a thread that cannot take its step
Blocked(t) ==
    \/ StepOf(t) \in WalLocks /\ coll.wal # {}
    \/ StepOf(t) = "read_persistent" /\ ~can_read(coll)
    \/ StepOf(t) = "write_persistent" /\ ~can_write(coll)

\* the threads in a call are all blocked
AllBlocked ==
    /\ \E t \in Threads : upd[t] # <<>>
    /\ \A t \in Threads : upd[t] # <<>> => Blocked(t)

\* C32: a thread that takes the persistent-state lock does not hold the WAL mutex, and
\* the threads calling first_index, last_index, term, entries, apply_snapshot and the
\* writers of the persistent state are never all blocked on the two locks
C32_PersistentLockFirst ==
    /\ \A t \in Threads :
           StepOf(t) \in {"read_persistent", "write_persistent"} => t \notin coll.wal
    /\ ~AllBlocked

\* C33: a caller that is about to take the shard holder's write lock inside a callback
\* (start_shard_transfer, set_shard_replica_state) does not hold the shard holder's lock
\* itself, so it can always get it once the others have released theirs
C33_NoLockHeldAcrossCallback ==
    \A c \in Threads :
        upd[c].pc \in {"start_shard_transfer", "set_shard_replica_state"} =>
            c \notin coll.readers \cup coll.writer

\* C34: the assertions of start_shard_transfer on was_not_transferred hold in every call:
\* a Local slot means the record was not registered before, a Proxy or ForwardProxy slot
\* means it was
C34_StartAssertionsHold ==
    last.op = "start" =>
        last.asserts \cap {"local_was_not_transferred", "proxy_was_transferred"} = {}

\* C35: in every non-sync finish_shard_transfer call the stopped task reports Finished
\* if and only if a ForwardProxy was promoted to Remote in the same call
C35_TaskAndProxyOnSameNode ==
    (last.op = "finish" /\ ~last.t.sync) => "task_and_proxy_same_node" \notin last.asserts

\* C36: a start_shard_transfer call that returns an error leaves the registered
\* transfers as they were and spawns no task
C36_FailedStartChangesNothing ==
    (last.op = "start" /\ last.ret = "err") => (~last.changed /\ ~last.spawned)

\* C37: when proxify_local or remove_replica returns an error, the replica set is
\* as it was before the call: the local slot still holds its shard, the remotes
\* and the replica-state map are unchanged
C37_FailedCallLeavesSetUnchanged ==
    (last.op \in {"proxify_local", "remove_replica"} /\ ~last.ok)
        => coll[ThisPeer].shards[last.shard_id] = last.before

\* C38: callers of propose_consensus_op_with_await with equal operation values do
\* not replace each other's waiter (no caller is told that its sender was dropped),
\* and a waiter whose caller timed out does not stay in the registry
C38_EqualOperationsKeptApart ==
    /\ \A c \in Callers : upd[c].ret # "SenderDropped"
    /\ \A o \in ConsensusOperations :
          coll.on_consensus_op_apply[o] # NoCaller
              => upd[coll.on_consensus_op_apply[o]].ret # "Timeout"

\* C39: when apply_entries returns, the applied cursor is past every entry whose
\* effects the call applied successfully, the configuration change that removes
\* this peer and stops consensus included, so that no later call or restart applies
\* the entry a second time (an entry whose cursor save failed on disk aside)
C39_CursorPastAppliedEntries ==
    last.op = "apply_entries" =>
        \A k \in 1..Len(last.log) :
            (last.log[k].result \in {"Ok(true)", "Ok(false)"} /\ ~last.log[k].save_failed)
                => coll.first_unapplied > last.log[k].index

\* the points listed under value v in the map
PointsOf(v) ==
    IF v \in DOMAIN coll.map THEN SeqToSet(coll.map[v]) ELSE {}

\* the values point idx has in point_to_values
ValuesOf(idx) ==
    IF idx < Len(coll.point_to_values)
    THEN SeqToSet(coll.point_to_values[idx + 1])
    ELSE {}

\* C40: after any sequence of add_many and remove_point the map and point_to_values
\* agree (idx is listed under v exactly when v is a value of idx) and
\* count_indexed_points is the number of points with a non-empty value list
C40_MapsAgree ==
    /\ \A v \in IndexedValues, idx \in Offsets : idx \in PointsOf(v) <=> v \in ValuesOf(idx)
    /\ count_indexed_points(coll) = Cardinality({idx \in Offsets : ValuesOf(idx) # {}})

====
